---- MODULE Spec2Model ----
(***************************************************************************)
(* A model of the aamp parameter-archive codec: the name registry          *)
(* (names.rs), the binary decoder (parse.rs) and encoder (write.rs) and    *)
(* the text encoder (yaml/emit.rs, yaml.rs) and decoder (yaml/parse.rs).   *)
(*                                                                         *)
(* Representation.  A byte is a number in 0..255.  A u32 is the tuple of   *)
(* its four little-endian bytes <<b0, b1, b2, b3>> (TLC's integers are     *)
(* signed 32-bit, a CRC-32 does not fit one).  A string is the tuple of    *)
(* its byte codes.  An IndexMap is the tuple of its <<key, value>>         *)
(* entries in insertion order.  An Option is None or Some(v).              *)
(***************************************************************************)
EXTENDS Integers, Sequences, FiniteSets, TLC

VARIABLES
    table,      \* names::TABLE, the shared registry: IndexMap<u32, String>
    pio,        \* the ParameterIO document the caller holds
    bytes,      \* the binary archive last written (Vec<u8>)
    text,       \* the text document last written (String)
    res         \* what the last operation returned to its caller

vars == <<table, pio, bytes, text, res>>

(***************************************************************************)
(* Options, bytes, 32-bit words                                            *)
(***************************************************************************)
None == [some |-> FALSE]
Some(v) == [some |-> TRUE, v |-> v]

\* let v = ..; F(v): the value is computed once and named
Let(v, F(_)) == F(v)

RECURSIVE XorBits(_, _, _)
XorBits(a, b, n) ==
    IF n = 0 THEN 0
    ELSE ((a + b) % 2) + 2 * XorBits(a \div 2, b \div 2, n - 1)

\* a table built once: the tuple <<f(0), ..., f(n - 1)>> is indexed from 1
RECURSIVE XorRow(_, _)
XorRow(a, b) == IF b = 16 THEN <<>> ELSE <<XorBits(a, b, 4)>> \o XorRow(a, b + 1)

RECURSIVE XorRows(_)
XorRows(a) == IF a = 16 THEN <<>> ELSE <<XorRow(a, 0)>> \o XorRows(a + 1)

XorNib == XorRows(0)

XorByte(a, b) ==
    16 * XorNib[(a \div 16) + 1][(b \div 16) + 1] + XorNib[(a % 16) + 1][(b % 16) + 1]

XorU32(x, y) == [i \in 1..4 |-> XorByte(x[i], y[i])]

\* x >> 1 on a little-endian u32
Shr1(x) == <<(x[1] \div 2) + 128 * (x[2] % 2), (x[2] \div 2) + 128 * (x[3] % 2),
             (x[3] \div 2) + 128 * (x[4] % 2), x[4] \div 2>>

\* n as u16 / as u32, little-endian (the cast keeps the low bits)
LE16(n) == <<n % 256, (n \div 256) % 256>>
LE32(n) == <<n % 256, (n \div 256) % 256, (n \div 65536) % 256, (n \div 16777216) % 256>>

(***************************************************************************)
(* CRC-32 (IEEE), the hash of a name                                       *)
(***************************************************************************)
CrcPoly == <<32, 131, 184, 237>>    \* 0xEDB88320

RECURSIVE CrcEntry(_, _)
CrcEntry(c, k) ==
    IF k = 0 THEN c
    ELSE CrcEntry(IF c[1] % 2 = 1 THEN XorU32(Shr1(c), CrcPoly) ELSE Shr1(c), k - 1)

RECURSIVE CrcEntries(_, _)
CrcEntries(lo, hi) ==
    IF lo = hi THEN <<CrcEntry(<<lo, 0, 0, 0>>, 8)>>
    ELSE CrcEntries(lo, (lo + hi) \div 2) \o CrcEntries(((lo + hi) \div 2) + 1, hi)

CrcTable == CrcEntries(0, 255)

RECURSIVE CrcUpdate(_, _, _)
CrcUpdate(c, s, i) ==
    IF i > Len(s) THEN c
    ELSE CrcUpdate(XorU32(<<c[2], c[3], c[4], 0>>, CrcTable[XorByte(c[1], s[i]) + 1]), s, i + 1)

\* digest.write(name.as_bytes()); digest.sum32()
Crc32(s) == XorU32(CrcUpdate(<<255, 255, 255, 255>>, s, 1), <<255, 255, 255, 255>>)

(***************************************************************************)
(* Strings                                                                 *)
(***************************************************************************)
RECURSIVE DecDigits(_)
DecDigits(n) == IF n < 10 THEN <<48 + n>> ELSE Append(DecDigits(n \div 10), 48 + (n % 10))

RECURSIVE ZeroPad(_, _)
ZeroPad(s, w) == IF Len(s) >= w THEN s ELSE ZeroPad(<<48>> \o s, w)

\* format!("{}", n) and format!("{:0w}", n) of a usize
FmtDec(n) == DecDigits(n)
FmtPad(n, w) == ZeroPad(DecDigits(n), w)

StartsAt(s, pat, i) ==
    /\ i + Len(pat) - 1 <= Len(s)
    /\ SubSeq(s, i, i + Len(pat) - 1) = pat

\* str::ends_with, str::contains, str::replace (every occurrence, left to right)
EndsWith(s, suf) == Len(suf) <= Len(s) /\ SubSeq(s, Len(s) - Len(suf) + 1, Len(s)) = suf
Contains(s, pat) == \E i \in 1..Len(s) : StartsAt(s, pat, i)

RECURSIVE ReplaceFrom(_, _, _, _)
ReplaceFrom(s, pat, rep, i) ==
    IF i > Len(s) THEN <<>>
    ELSE IF StartsAt(s, pat, i) THEN rep \o ReplaceFrom(s, pat, rep, i + Len(pat))
    ELSE <<s[i]>> \o ReplaceFrom(s, pat, rep, i + 1)
Replace(s, pat, rep) == ReplaceFrom(s, pat, rep, 1)

(***************************************************************************)
(* IndexMap<K, V>                                                          *)
(***************************************************************************)
IMHas(m, k) == \E i \in 1..Len(m) : m[i][1] = k
IMIndex(m, k) == CHOOSE i \in 1..Len(m) : m[i][1] = k
IMGet(m, k) == IF IMHas(m, k) THEN Some(m[IMIndex(m, k)][2]) ELSE None
\* an insert that puts a new key first
IMInsert_front(m, k, v) ==
    IF IMHas(m, k) THEN [m EXCEPT ![IMIndex(m, k)] = <<k, v>>] ELSE <<<<k, v>>>> \o m

\* insert keeps the position of a key that is already there and replaces its value
IMInsert(m, k, v) ==
    IF IMHas(m, k) THEN [m EXCEPT ![IMIndex(m, k)] = <<k, v>>] ELSE Append(m, <<k, v>>)


(***************************************************************************)
(* names.rs: the name registry                                             *)
(***************************************************************************)
\* The bundled dictionaries are data: a sample of each, one name per line.
NAMES ==
    << <<76, 105, 110, 107, 84, 97, 114, 103, 101, 116, 115>>,       \* "LinkTargets"
       <<76, 105, 115, 116, 115>>,       \* "Lists"
       <<67, 104, 105, 108, 100, 114, 101, 110>>,       \* "Children"
       <<66, 111, 120, 101, 115>>,       \* "Boxes"
       <<73, 116, 101, 109, 76, 105, 115, 116>> >>     \* "ItemList"

NUMBERED_NAMES ==
    << <<65, 73, 95, 123, 125>>,       \* "AI_{}"
       <<66, 111, 110, 101, 95, 123, 58, 48, 50, 125>>,       \* "Bone_{:02}"
       <<78, 111, 100, 101, 123, 58, 48, 51, 125>>,       \* "Node{:03}"
       <<73, 116, 101, 109, 123, 58, 48, 52, 125>>,       \* "Item{:04}"
       <<71, 114, 115, 122, 95, 85, 123, 58, 48, 50, 125>> >>     \* "Grsz_U{:02}": its names share their CRC-32 with those of "Bone_{:02}"

\* a registry that appends an entry on every add, also for a name it holds
add_name_appending(t, name) == Append(t, <<Crc32(name), name>>)

\* self.table.insert(digest.sum32(), name.to_owned())
add_name(t, name) == IMInsert(t, Crc32(name), name)

\* self.table.get(&crc)
get_name(t, crc) == IMGet(t, crc)

RECURSIVE AddAll(_, _, _)
AddAll(t, names, i) ==
    IF i > Len(names) THEN t ELSE AddAll(add_name(t, names[i]), names, i + 1)

NameTable_new(include_stock_names) ==
    IF include_stock_names THEN AddAll(<<>>, NAMES, 1) ELSE <<>>

DEFAULT_TABLE == AddAll(<<>>, NAMES, 1)

\* #[cached]: every call returns a clone of the table as first built
get_default_name_table == DEFAULT_TABLE

\* The registry every decode and encode path locks; loaded with the stock
\* names at process start.
TABLE_init == NameTable_new(TRUE)

possible_names(parent, idx) ==
    << parent \o FmtDec(idx),
       parent \o <<95>> \o FmtDec(idx),
       parent \o FmtPad(idx, 2),
       parent \o <<95>> \o FmtPad(idx, 2),
       parent \o FmtPad(idx, 3),
       parent \o <<95>> \o FmtPad(idx, 3) >>

RECURSIVE first_match(_, _, _)
first_match(names, crc, k) ==
    IF k > Len(names) THEN None
    ELSE IF Crc32(names[k]) = crc THEN Some(names[k])
    ELSE first_match(names, crc, k + 1)

\* a scan that tries the index as given only, not the index after it
scan_names_one_index(base, idx, crc) == first_match(possible_names(base, idx), crc, 1)

\* for i in idx..idx + 2 { for name in &possible_names(base, i) { ... } }
scan_names(base, idx, crc) ==
    LET a == first_match(possible_names(base, idx), crc, 1)
    IN  IF a.some THEN a ELSE first_match(possible_names(base, idx + 1), crc, 1)

SUFFIXES == << <<115>>, <<101, 115>>, <<76, 105, 115, 116>> >>    \* "s", "es", "List"

\* a retry that drops one character whatever the suffix it found
RECURSIVE scan_suffixes_one_char(_, _, _, _)
scan_suffixes_one_char(parent_name, idx, crc, k) ==
    IF k > Len(SUFFIXES) THEN None
    ELSE LET suffix == SUFFIXES[k]
             alt_name == SubSeq(parent_name, 1, Len(parent_name) - 1)
             hit == IF EndsWith(parent_name, suffix)
                    THEN scan_names(alt_name, idx, crc) ELSE None
         IN  IF hit.some THEN hit ELSE scan_suffixes_one_char(parent_name, idx, crc, k + 1)

RECURSIVE scan_suffixes(_, _, _, _)
scan_suffixes(parent_name, idx, crc, k) ==
    IF k > Len(SUFFIXES) THEN None
    ELSE LET suffix == SUFFIXES[k]
             alt_name == SubSeq(parent_name, 1, Len(parent_name) - Len(suffix))
             hit == IF EndsWith(parent_name, suffix)
                    THEN scan_names(alt_name, idx, crc) ELSE None
         IN  IF hit.some THEN hit ELSE scan_suffixes(parent_name, idx, crc, k + 1)

numbered_name(name, i) ==
    LET m1 == IF Contains(name, <<123, 125>>)
              THEN Replace(name, <<123, 125>>, FmtDec(i)) ELSE name
        m2 == IF Contains(name, <<123, 58, 48, 50, 125>>)
              THEN Replace(m1, <<123, 58, 48, 50, 125>>, FmtPad(i, 2)) ELSE m1
        m3 == IF Contains(name, <<123, 58, 48, 51, 125>>)
              THEN Replace(m2, <<123, 58, 48, 51, 125>>, FmtPad(i, 3)) ELSE m2
    IN  IF Contains(name, <<123, 58, 48, 52, 125>>)
        THEN Replace(m3, <<123, 58, 48, 52, 125>>, FmtPad(i, 3)) ELSE m3

\* opt is overwritten by every match: the last match of the scan is returned
RECURSIVE numbered_scan(_, _, _, _, _)
numbered_scan(idx, crc, k, i, opt) ==
    IF k > Len(NUMBERED_NAMES) THEN opt
    ELSE IF i >= idx + 2 THEN numbered_scan(idx, crc, k + 1, 0, opt)
    ELSE LET maybe == numbered_name(NUMBERED_NAMES[k], i)
         IN  numbered_scan(idx, crc, k, i + 1,
                           IF Crc32(maybe) = crc THEN Some(maybe) ELSE opt)

try_numbered_name(idx, crc) == numbered_scan(idx, crc, 1, 0, None)

\* #[cached] memoises on (crc, parent_crc, idx); the tables the body reads
\* (the default table's clone, the numbered list) never change, so a memoised
\* answer and a computed one are the same value.
guess_name(crc, parent_crc, idx) ==
    LET parent == get_name(get_default_name_table, parent_crc)
    IN  IF ~parent.some THEN try_numbered_name(idx, crc)
        ELSE LET direct == scan_names(parent.v, idx, crc)
                 child == IF parent.v = <<67, 104, 105, 108, 100, 114, 101, 110>>
                          THEN scan_names(<<67, 104, 105, 108, 100>>, idx, crc) ELSE None
                 suffixed == scan_suffixes(parent.v, idx, crc, 1)
             IN  IF direct.some THEN direct
                 ELSE IF child.some THEN child
                 ELSE IF suffixed.some THEN suffixed
                 ELSE try_numbered_name(idx, crc)


(***************************************************************************)
(* The registry as a state machine: add, lookup and guess, in any order    *)
(***************************************************************************)
MaxIdx == 3     \* sibling indices 0..MaxIdx are guessed at

\* names a caller adds: one not in the stock table, one that is, one more
AddNames ==
    { <<78, 111, 100, 101, 115>>,        \* "Nodes"
      <<76, 105, 115, 116, 115>>,        \* "Lists"
      <<71, 97, 116, 101, 115>> }       \* "Gates"

\* names whose hashes are looked up and guessed at
TargetNames ==
    { <<76, 105, 110, 107, 84, 97, 114, 103, 101, 116, 115, 50>>,     \* "LinkTargets2"
      <<76, 105, 110, 107, 84, 97, 114, 103, 101, 116, 115, 95, 48, 51>>,   \* "LinkTargets_03"
      <<76, 105, 115, 116, 51>>,            \* "List3"
      <<66, 111, 120, 49>>,             \* "Box1"
      <<66, 111, 120, 101, 48, 48, 49>>,          \* "Boxe001"
      <<73, 116, 101, 109, 95, 48, 50>>,          \* "Item_02"
      <<67, 104, 105, 108, 100, 49>>,           \* "Child1"
      <<78, 111, 100, 101, 115, 49>>,           \* "Nodes1"
      <<65, 73, 95, 49>>,             \* "AI_1"
      <<73, 116, 101, 109, 48, 48, 51>>,          \* "Item003"
      <<66, 111, 110, 101, 95, 48, 49>>,          \* "Bone_01"
      <<73, 116, 101, 109, 48, 48, 48, 51>>,          \* "Item0003"
      <<90, 122, 122>> }             \* "Zzz"

ParentNames ==
    { <<76, 105, 110, 107, 84, 97, 114, 103, 101, 116, 115>>,      \* "LinkTargets"
      <<76, 105, 115, 116, 115>>,            \* "Lists"
      <<67, 104, 105, 108, 100, 114, 101, 110>>,         \* "Children"
      <<66, 111, 120, 101, 115>>,            \* "Boxes"
      <<73, 116, 101, 109, 76, 105, 115, 116>>,         \* "ItemList"
      <<78, 111, 100, 101, 115>>,            \* "Nodes"
      <<79, 114, 112, 104, 97, 110>> }          \* "Orphan"

TargetCrcs == {Crc32(n) : n \in TargetNames}
ParentCrcs == {Crc32(n) : n \in ParentNames}
LookupCrcs == {Crc32(n) : n \in AddNames} \cup ParentCrcs

InitNames ==
    /\ table = TABLE_init
    /\ pio = None
    /\ bytes = <<>>
    /\ text = <<>>
    /\ res = [op |-> "none"]

\* table.add_name(name)
AddName(name) ==
    /\ table' = add_name(table, name)
    /\ res' = [op |-> "add", name |-> name, prev |-> table]
    /\ UNCHANGED <<pio, bytes, text>>

\* table.get_name(crc)
GetName(crc) ==
    /\ res' = [op |-> "lookup", crc |-> crc, result |-> get_name(table, crc), prev |-> table]
    /\ UNCHANGED <<table, pio, bytes, text>>

\* The memo #[cached] keeps for guess_name: one computed answer per
\* (crc, parent_crc, idx), returned to every call with those arguments.
guess_name_cache ==
    [q \in TargetCrcs \X ParentCrcs \X (0..MaxIdx) |-> guess_name(q[1], q[2], q[3])] @@ <<>>

\* names::guess_name(crc, parent_crc, idx)
GuessName(crc, parent_crc, idx) ==
    /\ res' = [op |-> "guess", crc |-> crc, parent |-> parent_crc, idx |-> idx,
               result |-> guess_name_cache[<<crc, parent_crc, idx>>]]
    /\ UNCHANGED <<table, pio, bytes, text>>

NextNames ==
    \/ \E name \in AddNames : AddName(name)
    \/ \E crc \in LookupCrcs : GetName(crc)
    \/ \E crc \in TargetCrcs, parent_crc \in ParentCrcs, idx \in 0..MaxIdx :
          GuessName(crc, parent_crc, idx)

SpecNames == InitNames /\ [][NextNames]_vars


(***************************************************************************)
(* Claims about the registry (checked under SpecNames)                     *)
(***************************************************************************)
HoldsEntry(t, name) == \E i \in 1..Len(t) : t[i] = <<Crc32(name), name>>
HoldsKey(t, crc) == \E i \in 1..Len(t) : t[i][1] = crc

\* C5: after add(name) a lookup of hash(name) returns name; an add of a name
\* the table already holds leaves the table as it was; a lookup of a hash
\* that was never added returns nothing; no lookup changes the table.
C5_AddThenLookup ==
    /\ res.op = "add" =>
          /\ get_name(table, Crc32(res.name)) = Some(res.name)
          /\ HoldsEntry(res.prev, res.name) => table = res.prev
    /\ res.op = "lookup" =>
          /\ table = res.prev
          /\ \A i \in 1..Len(table) :
                (table[i][1] = res.crc /\ Crc32(table[i][2]) = res.crc)
                    => res.result = Some(table[i][2])
          /\ ~HoldsKey(table, res.crc) => res.result = None

\* a name outside the stock table is added a second time
C5_Witness ==
    /\ res.op = "add"
    /\ res.name = <<78, 111, 100, 101, 115>>
    /\ HoldsEntry(res.prev, res.name)

\* the six candidates of one index, and the twelve of an index and the next
Candidates(P, j) ==
    << P \o FmtDec(j), P \o <<95>> \o FmtDec(j),
       P \o FmtPad(j, 2), P \o <<95>> \o FmtPad(j, 2),
       P \o FmtPad(j, 3), P \o <<95>> \o FmtPad(j, 3) >>
TwoIndexCandidates(P, i) == Candidates(P, i) \o Candidates(P, i + 1)

Hits(names, crc) == {k \in 1..Len(names) : Crc32(names[k]) = crc}
FirstHit(names, crc) ==
    names[CHOOSE k \in Hits(names, crc) : \A m \in Hits(names, crc) : k <= m]

\* C6: when the parent hash resolves to a name P, a guess returns the first
\* of P{j}, P_{j}, P{j:02}, P_{j:02}, P{j:03}, P_{j:03}, j = i then j = i+1,
\* whose hash is the target; "LinkTargets", index 2, hash("LinkTargets2")
\* gives "LinkTargets2".
C6_ParentCandidates ==
    res.op = "guess" =>
        LET parent == get_name(get_default_name_table, res.parent)
        IN  /\ parent.some =>
                LET names == TwoIndexCandidates(parent.v, res.idx)
                IN  Hits(names, res.crc) # {} => res.result = Some(FirstHit(names, res.crc))
            /\ ( /\ res.parent = Crc32(<<76, 105, 110, 107, 84, 97, 114, 103, 101, 116, 115>>)
                 /\ res.idx = 2
                 /\ res.crc = Crc32(<<76, 105, 110, 107, 84, 97, 114, 103, 101, 116, 115, 50>>) )
                  => res.result = Some(<<76, 105, 110, 107, 84, 97, 114, 103, 101, 116, 115, 50>>)

C6_Witness ==
    /\ res.op = "guess"
    /\ res.parent = Crc32(<<76, 105, 110, 107, 84, 97, 114, 103, 101, 116, 115>>)
    /\ res.idx = 2
    /\ res.result = Some(<<76, 105, 110, 107, 84, 97, 114, 103, 101, 116, 115, 50>>)

\* the parent name with each suffix it ends with removed, in the order s, es, List
RECURSIVE StrippedBases(_, _)
StrippedBases(P, k) ==
    IF k > 3 THEN <<>>
    ELSE LET suf == << <<115>>, <<101, 115>>, <<76, 105, 115, 116>> >>[k]
         IN  (IF EndsWith(P, suf) THEN <<SubSeq(P, 1, Len(P) - Len(suf))>> ELSE <<>>)
                 \o StrippedBases(P, k + 1)

RECURSIVE AllCandidates(_, _, _)
AllCandidates(bases, i, k) ==
    IF k > Len(bases) THEN <<>>
    ELSE TwoIndexCandidates(bases[k], i) \o AllCandidates(bases, i, k + 1)

\* C7: when the scan on the parent name finds nothing and the name ends with
\* "s", "es" or "List", the same scan on the name without that suffix gives
\* the answer; parent "Lists", hash("List3"), index 2 or 3 gives "List3".
C7_SuffixRetry ==
    res.op = "guess" =>
        LET parent == get_name(get_default_name_table, res.parent)
        IN  /\ (parent.some /\ Hits(TwoIndexCandidates(parent.v, res.idx), res.crc) = {}) =>
                LET names == AllCandidates(StrippedBases(parent.v, 1), res.idx, 1)
                IN  Hits(names, res.crc) # {} => res.result = Some(FirstHit(names, res.crc))
            /\ ( /\ res.parent = Crc32(<<76, 105, 115, 116, 115>>)
                 /\ res.idx \in {2, 3}
                 /\ res.crc = Crc32(<<76, 105, 115, 116, 51>>) )
                  => res.result = Some(<<76, 105, 115, 116, 51>>)

C7_Witness ==
    /\ res.op = "guess"
    /\ res.parent = Crc32(<<76, 105, 115, 116, 115>>)
    /\ res.idx = 2
    /\ res.result = Some(<<76, 105, 115, 116, 51>>)

\* C8: a guess made after add(P) resolves the parent hash(P) to P and can
\* return a name derived from P.
C8_GuessSeesAdds ==
    res.op = "guess" =>
        LET parent == get_name(table, res.parent)
        IN  parent.some =>
                LET names == TwoIndexCandidates(parent.v, res.idx)
                IN  Hits(names, res.crc) # {} => res.result = Some(FirstHit(names, res.crc))

(***************************************************************************)
(* lib.rs, types.rs: the document tree                                     *)
(*                                                                         *)
(* A Parameter is [t |-> variant, v |-> value]: a bool for Bool; the four  *)
(* little-endian bytes for F32, Int and U32; a tuple of f32 for Vec2,      *)
(* Vec3, Vec4, Color and Quat; a string for the four string variants; a    *)
(* tuple of Curve records for Curve1..Curve4; a tuple of elements for the  *)
(* four buffers.  A ParameterObject is an IndexMap from hash to Parameter, *)
(* a ParameterList is [lists, objects], a ParameterIO adds version and     *)
(* pio_type.                                                               *)
(***************************************************************************)
\* the variants in discriminant order: ParameterTypes[d + 1] has discriminant d
ParameterTypes ==
    << "Bool", "F32", "Int", "Vec2", "Vec3", "Vec4", "Color", "String32",
       "String64", "Curve1", "Curve2", "Curve3", "Curve4", "BufferInt",
       "BufferF32", "String256", "Quat", "U32", "BufferU32", "BufferBinary",
       "StringRef" >>

is_string(param) == param.t \in {"String32", "String64", "String256", "StringRef"}
is_buffer(param) == param.t \in {"BufferBinary", "BufferF32", "BufferInt", "BufferU32"}

get_param_type(param) ==
    (CHOOSE d \in 1..Len(ParameterTypes) : ParameterTypes[d] = param.t) - 1

\* the number a little-endian u16 / u24 / u32 holds (a u32 below 2^31)
U16(b) == b[1] + 256 * b[2]
U24(b) == b[1] + 256 * b[2] + 65536 * b[3]
U32(b) == b[1] + 256 * b[2] + 65536 * b[3] + 16777216 * b[4]

Zeros(n) == [i \in 1..n |-> 0]

\* the concatenation of ss[lo..hi]
RECURSIVE Flatten(_, _, _)
Flatten(ss, lo, hi) ==
    IF lo > hi THEN <<>>
    ELSE IF lo = hi THEN ss[lo]
    ELSE LET mid == (lo + hi) \div 2
         IN  Flatten(ss, lo, mid) \o Flatten(ss, mid + 1, hi)

Concat(ss) == Flatten(ss, 1, Len(ss))

(***************************************************************************)
(* write.rs: the binary encoder                                            *)
(***************************************************************************)
\* std::io::Cursor<Vec<u8>>
Cursor_new == [buf |-> <<>>, pos |-> 0]
set_position(c, p) == [c EXCEPT !.pos = p]
stream_len(c) == Len(c.buf)

\* Cursor::write_all: overwrites from pos, grows the vector, zero-fills a
\* gap left by a seek past the end; writing nothing does nothing
write_all(c, bs) ==
    IF bs = <<>> THEN c
    ELSE LET b0 == IF c.pos > Len(c.buf) THEN c.buf \o Zeros(c.pos - Len(c.buf))
                   ELSE c.buf
             end == c.pos + Len(bs)
         IN  [buf |-> SubSeq(b0, 1, c.pos) \o bs \o SubSeq(b0, end + 1, Len(b0)),
              pos |-> end]

\* mutant: nothing is aligned
align_identity(int) == int

\* int + 4 - 1 - (int - 1) % 4 on u32; int = 0 wraps to 0 in a release build
align(int) == IF int = 0 THEN 0 ELSE int + 4 - 1 - ((int - 1) % 4)

align_cursor(buffer) == set_position(buffer, align(buffer.pos))

u24_offset(offset) == <<offset % 256, (offset \div 256) % 256, (offset \div 65536) % 256>>

\* binwrite of one types::Curve
CurveBytes(c) == c.a \o c.b \o Concat(c.floats)

write_param_value(param, buffer) ==
    CASE param.t = "Bool" -> write_all(buffer, LE32(IF param.v THEN 1 ELSE 0))
      [] param.t \in {"F32", "Int", "U32"} -> write_all(buffer, param.v)
      [] param.t \in {"Vec2", "Vec3", "Vec4", "Color", "Quat"} ->
            write_all(buffer, Concat(param.v))
      [] is_string(param) -> write_all(write_all(buffer, param.v), <<0>>)
      [] param.t \in {"Curve1", "Curve2", "Curve3", "Curve4"} ->
            write_all(buffer, Concat([i \in 1..Len(param.v) |-> CurveBytes(param.v[i])]))
      [] param.t \in {"BufferU32", "BufferInt", "BufferF32"} ->
            write_all(write_all(buffer, LE32(Len(param.v))), Concat(param.v))
      [] param.t = "BufferBinary" ->
            write_all(write_all(buffer, LE32(Len(param.v))), param.v)

\* mutant: the offset is counted from the start of the parameter records
write_param_offset_absolute(parent_offset, param_offset, param_buffer, pad) ==
    LET param_pos == param_buffer.pos
        rel_offset == param_offset + pad + stream_len(param_buffer)
        red_offset == rel_offset \div 4
    IN  set_position(write_all(set_position(param_buffer, parent_offset + 4),
                               u24_offset(red_offset)),
                     param_pos)

\* returns the parameter buffer with the record at parent_offset patched
write_param_offset(parent_offset, param_offset, param_buffer, pad) ==
    LET param_pos == param_buffer.pos
        rel_offset == param_offset + pad + stream_len(param_buffer) - parent_offset
        red_offset == rel_offset \div 4
    IN  set_position(write_all(set_position(param_buffer, parent_offset + 4),
                               u24_offset(red_offset)),
                     param_pos)

\* mutant: the offset of a buffer is not moved past its count
write_param_data_no_pad(param, parent_offset, b) ==
    [param_buffer |-> write_param_offset(parent_offset, b.data_buffer.pos, b.param_buffer, 0),
     data_buffer |-> write_param_value(param, b.data_buffer)]

\* b is [param_buffer, data_buffer]
write_param_data(param, parent_offset, b) ==
    LET offset_pad == IF is_buffer(param) THEN 4 ELSE 0
    IN  [param_buffer |-> write_param_offset(parent_offset, b.data_buffer.pos,
                                             b.param_buffer, offset_pad),
         data_buffer |-> align_cursor(write_param_value(param, b.data_buffer))]

write_param_string(param, parent_offset, b) ==
    [param_buffer |-> write_param_offset(parent_offset, b.data_buffer.pos,
                                         b.param_buffer, 0),
     data_buffer |-> align_cursor(write_param_value(param, b.data_buffer))]

RECURSIVE count_lists(_)
RECURSIVE SumLists(_, _)
SumLists(lists, i) ==
    IF i > Len(lists) THEN 0 ELSE count_lists(lists[i][2].lists) + SumLists(lists, i + 1)
count_lists(lists) == Len(lists) + SumLists(lists, 1)

RECURSIVE count_objs(_, _)
RECURSIVE SumObjs(_, _)
SumObjs(lists, i) ==
    IF i > Len(lists) THEN 0
    ELSE count_objs(lists[i][2].lists, Len(lists[i][2].objects)) + SumObjs(lists, i + 1)
count_objs(lists, objs) == objs + SumObjs(lists, 1)

RECURSIVE count_params(_, _)
RECURSIVE SumParams(_, _)
SumParams(lists, i) ==
    IF i > Len(lists) THEN 0
    ELSE count_params(lists[i][2].lists, lists[i][2].objects) + SumParams(lists, i + 1)
RECURSIVE SumObjParams(_, _)
SumObjParams(objects, i) ==
    IF i > Len(objects) THEN 0 ELSE Len(objects[i][2]) + SumObjParams(objects, i + 1)
count_params(lists, objects) == SumParams(lists, 1) + SumObjParams(objects, 1)

\* binwrite of WriteParameterList, WriteParameterObject, WriteParameter
WriteParameterList(crc, lists_rel_offset, num_lists, objs_rel_offset, num_objs) ==
    crc \o LE16(lists_rel_offset) \o LE16(num_lists) \o LE16(objs_rel_offset) \o LE16(num_objs)
WriteParameterObject(crc, params_rel_offset, num_params) ==
    crc \o LE16(params_rel_offset) \o LE16(num_params)
WriteParameter(crc, data_offset, param_type) == crc \o data_offset \o <<param_type>>

ROOT_CRC == <<108, 204, 246, 164>>      \* 2_767_637_356 = 0xA4F6CC6C, hash of "param_root"

\* The encoder's buffers: s is [list_buffer, obj_buffer, param_buffer,
\* all_params], all_params the (record position, parameter) pairs pushed so
\* far; sz is [lists_size, objs_size, params_size].

\* the inner loop of write_list_contents: one record per parameter of obj
RECURSIVE WriteParamRecords(_, _, _)
WriteParamRecords(obj, j, s) ==
    IF j > Len(obj) THEN s
    ELSE WriteParamRecords(obj, j + 1,
            [s EXCEPT !.all_params = Append(@, <<s.param_buffer.pos, obj[j][2]>>),
                      !.param_buffer = write_all(@, WriteParameter(obj[j][1], <<0, 0, 0>>,
                                                        get_param_type(obj[j][2])))])

\* the object loop of write_list_contents
RECURSIVE WriteObjectRecords(_, _, _, _)
WriteObjectRecords(objects, i, s, sz) ==
    IF i > Len(objects) THEN s
    ELSE LET crc == objects[i][1]
             obj == objects[i][2]
             rec == WriteParameterObject(crc,
                        ((sz.objs_size - s.obj_buffer.pos) + s.param_buffer.pos) \div 4,
                        Len(obj))
         IN  WriteObjectRecords(objects, i + 1,
                WriteParamRecords(obj, 1, [s EXCEPT !.obj_buffer = write_all(@, rec)]), sz)

\* the first list loop of write_list_contents: the records of the sublists
\* and the position of each; r is [list_buffer, offset_map]
RECURSIVE WriteListRecords(_, _, _)
WriteListRecords(lists, i, r) ==
    IF i > Len(lists) THEN r
    ELSE LET crc == lists[i][1]
             sublist == lists[i][2]
         IN  WriteListRecords(lists, i + 1,
                [offset_map |-> IMInsert(r.offset_map, crc, r.list_buffer.pos),
                 list_buffer |-> write_all(r.list_buffer,
                     WriteParameterList(crc, 0, Len(sublist.lists), 0, Len(sublist.objects)))])

RECURSIVE write_list_contents(_, _, _, _, _)
\* the second list loop of write_list_contents: the contents of each sublist
RECURSIVE WriteSublists(_, _, _, _, _)
WriteSublists(lists, i, offset_map, s, sz) ==
    IF i > Len(lists) THEN s
    ELSE LET crc == lists[i][1]
             sublist == lists[i][2]
         IN  WriteSublists(lists, i + 1, offset_map,
                write_list_contents(IMGet(offset_map, crc).v, sublist.lists,
                                    sublist.objects, s, sz), sz)

\* the object half of write_list_contents
WriteListObjects(list_offset, objects, s, sz) ==
    IF objects = <<>> THEN s
    ELSE Let(s.list_buffer.pos, LAMBDA pos :
         Let(write_all(set_position(s.list_buffer, list_offset + 8),
                       LE16((s.obj_buffer.pos + sz.lists_size - list_offset) \div 4)),
             LAMBDA patched :
             WriteObjectRecords(objects, 1,
                 [s EXCEPT !.list_buffer = set_position(patched, pos)], sz)))

\* the sublist half of write_list_contents; pos is the position the list
\* buffer had on entry
WriteListLists(list_offset, lists, pos, s, sz) ==
    IF lists = <<>> THEN s
    ELSE Let(write_all(set_position(s.list_buffer, list_offset + 4),
                       LE16((pos - list_offset) \div 4)), LAMBDA patched :
         Let(WriteListRecords(lists, 1, [offset_map |-> <<>>,
                                         list_buffer |-> set_position(patched, pos)]),
             LAMBDA r :
             WriteSublists(lists, 1, r.offset_map,
                           [s EXCEPT !.list_buffer = r.list_buffer], sz)))

write_list_contents(list_offset, lists, objects, s, sz) ==
    WriteListLists(list_offset, lists, s.list_buffer.pos,
                   WriteListObjects(list_offset, objects, s, sz), sz)

\* the two value loops of write_binary over the filtered all_params
RECURSIVE WriteAllData(_, _, _)
WriteAllData(params, i, b) ==
    IF i > Len(params) THEN b
    ELSE WriteAllData(params, i + 1, write_param_data(params[i][2], params[i][1], b))

RECURSIVE WriteAllStrings(_, _, _)
WriteAllStrings(params, i, b) ==
    IF i > Len(params) THEN b
    ELSE WriteAllStrings(params, i + 1, write_param_string(params[i][2], params[i][1], b))

WriteHeader(h) ==
    <<65, 65, 77, 80>> \o LE32(2) \o LE32(3) \o LE32(h.file_size) \o h.pio_version
    \o LE32(h.pio_offset) \o LE32(h.num_lists) \o LE32(h.num_objects) \o LE32(h.num_params)
    \o LE32(h.data_section_size) \o LE32(h.string_section_size) \o LE32(1)

\* the sections write_binary builds: the four buffers and the two sizes
SectionSizes(self) ==
    [lists_size |-> (count_lists(self.lists) + 1) * 12,
     objs_size |-> count_objs(self.lists, Len(self.objects)) * 8,
     params_size |-> count_params(self.lists, self.objects) * 8]

\* mutant: one pass writes every value in the order of the records
WriteSections_one_pass(self) ==
    Let(SectionSizes(self), LAMBDA sz :
    Let(WriteParameterList(ROOT_CRC, 3, Len(self.lists), sz.lists_size \div 4,
                           Len(self.objects)), LAMBDA root :
    Let(write_list_contents(0, self.lists, self.objects,
            [list_buffer |-> write_all(Cursor_new, root), obj_buffer |-> Cursor_new,
             param_buffer |-> Cursor_new, all_params |-> <<>>], sz), LAMBDA s :
    Let(WriteAllData(s.all_params, 1,
            [param_buffer |-> s.param_buffer, data_buffer |-> Cursor_new]), LAMBDA b1 :
        [sz |-> sz, list_buffer |-> s.list_buffer, obj_buffer |-> s.obj_buffer,
         param_buffer |-> b1.param_buffer, data_buffer |-> b1.data_buffer,
         all_params |-> s.all_params, data_size |-> stream_len(b1.data_buffer),
         string_size |-> 0]))))

WriteSections(self) ==
    Let(SectionSizes(self), LAMBDA sz :
    Let(WriteParameterList(ROOT_CRC, 3, Len(self.lists), sz.lists_size \div 4,
                           Len(self.objects)), LAMBDA root :
    Let(write_list_contents(0, self.lists, self.objects,
            [list_buffer |-> write_all(Cursor_new, root), obj_buffer |-> Cursor_new,
             param_buffer |-> Cursor_new, all_params |-> <<>>], sz), LAMBDA s :
    Let(WriteAllData(SelectSeq(s.all_params, LAMBDA e : ~is_string(e[2])), 1,
            [param_buffer |-> s.param_buffer, data_buffer |-> Cursor_new]), LAMBDA b1 :
    Let(WriteAllStrings(SelectSeq(s.all_params, LAMBDA e : is_string(e[2])), 1, b1),
        LAMBDA b2 :
        [sz |-> sz, list_buffer |-> s.list_buffer, obj_buffer |-> s.obj_buffer,
         param_buffer |-> b2.param_buffer, data_buffer |-> b2.data_buffer,
         all_params |-> s.all_params, data_size |-> stream_len(b1.data_buffer),
         string_size |-> stream_len(b2.data_buffer) - stream_len(b1.data_buffer)])))))

write_binary(self, writer) ==
    Let(self.pio_type \o <<0>>, LAMBDA pio_type :
    Let(WriteSections(self), LAMBDA w :
    Let(WriteHeader(
            [file_size |-> 48 + align(Len(pio_type)) + stream_len(w.list_buffer)
                              + stream_len(w.obj_buffer) + stream_len(w.param_buffer)
                              + stream_len(w.data_buffer),
             pio_version |-> self.version,
             pio_offset |-> align(Len(pio_type)),
             num_lists |-> w.sz.lists_size \div 12,
             num_objects |-> w.sz.objs_size \div 8,
             num_params |-> w.sz.params_size \div 8,
             data_section_size |-> w.data_size,
             string_section_size |-> w.string_size]), LAMBDA header :
    Let(align_cursor(write_all(write_all(writer, header), pio_type)), LAMBDA w1 :
    Let(write_all(write_all(write_all(w1, w.list_buffer.buf), w.obj_buffer.buf),
                  w.param_buffer.buf), LAMBDA w2 :
        write_all(write_all(align_cursor(w2), w.data_buffer.buf), <<0>>))))))

to_binary(self) == write_binary(self, Cursor_new).buf

(***************************************************************************)
(* parse.rs: the binary decoder                                            *)
(*                                                                         *)
(* The reader is the byte vector and a position.  A decoding step returns  *)
(* [st, v, names, reads]: st is "ok", "err" (an Err returned through ?) or *)
(* "panic" (the thread unwinds), v the value when st is "ok", names the    *)
(* strings handed to add_parsed_string_to_table so far and reads the       *)
(* number of list, object and parameter records read so far.  depth is the *)
(* number of calls of from_parse_list that have not returned.  The call    *)
(* recurses on the thread's stack, which holds StackLimit of its frames:   *)
(* one call more overflows the stack and the process is aborted, st is     *)
(* then "overflow".                                                        *)
(***************************************************************************)
StackLimit == 8
\* read n bytes at pos: None on a short read
Read(buf, pos, n) ==
    IF pos >= 0 /\ pos + n <= Len(buf) THEN Some(SubSeq(buf, pos + 1, pos + n)) ELSE None

\* binread's NullString: the bytes up to the first NUL, None when there is none
NullString_read(buf, pos) ==
    LET zs == {i \in (pos + 1)..Len(buf) : buf[i] = 0}
    IN  IF zs = {} THEN None
        ELSE Some(SubSeq(buf, pos + 1, (CHOOSE i \in zs : \A k \in zs : i <= k) - 1))

\* bs cut into elements of n bytes
Split(bs, n) == [i \in 1..(Len(bs) \div n) |-> SubSeq(bs, (i - 1) * n + 1, i * n)]

Fail(st, acc) == [st |-> st, names |-> acc.names, reads |-> acc.reads, depth |-> acc.depth]
Done(v, acc) ==
    [st |-> "ok", v |-> v, names |-> acc.names, reads |-> acc.reads, depth |-> acc.depth]

\* TryFrom<u8> for ParameterType
ParameterType_try_from(value) ==
    IF value <= 20 THEN Some(ParameterTypes[value + 1]) ELSE None

ParseParameterList_read(buf, pos) ==
    LET b == Read(buf, pos, 12)
    IN  IF ~b.some THEN None
        ELSE Some([crc |-> SubSeq(b.v, 1, 4),
                   lists_rel_offset |-> U16(SubSeq(b.v, 5, 6)),
                   num_lists |-> U16(SubSeq(b.v, 7, 8)),
                   objs_rel_offset |-> U16(SubSeq(b.v, 9, 10)),
                   num_objs |-> U16(SubSeq(b.v, 11, 12))])

ParseParameterObject_read(buf, pos) ==
    LET b == Read(buf, pos, 8)
    IN  IF ~b.some THEN None
        ELSE Some([crc |-> SubSeq(b.v, 1, 4),
                   params_rel_offset |-> U16(SubSeq(b.v, 5, 6)),
                   num_params |-> U16(SubSeq(b.v, 7, 8))])

\* ParseParameter::read: [st |-> "ok", v], "err" on a short read, "panic"
\* when try_from(x).expect(..) meets a byte that is no discriminant
ParseParameter_read(buf, pos) ==
    LET b == Read(buf, pos, 8)
    IN  IF ~b.some THEN [st |-> "err"]
        ELSE LET ty == ParameterType_try_from(b.v[8])
             IN  IF ~ty.some THEN [st |-> "panic"]
                 ELSE [st |-> "ok",
                       v |-> [crc |-> SubSeq(b.v, 1, 4),
                              data_offset |-> U24(SubSeq(b.v, 5, 7)),
                              param_type |-> ty.v]]

\* types::Curve read: two u32 and 30 f32
CurveOf(b) == [a |-> SubSeq(b, 1, 4), b |-> SubSeq(b, 5, 8), floats |-> Split(SubSeq(b, 9, 128), 4)]

\* the value of variant t that the bytes b read in place hold
Shape(t, b) ==
    CASE t = "Bool" -> b[1] = 1
      [] t \in {"F32", "Int", "U32"} -> b
      [] t \in {"Vec2", "Vec3", "Vec4", "Color", "Quat"} -> Split(b, 4)
      [] t \in {"Curve1", "Curve2", "Curve3", "Curve4"} ->
            [i \in 1..(Len(b) \div 128) |-> CurveOf(SubSeq(b, 128 * (i - 1) + 1, 128 * i))]

\* a value of n bytes read in place
ReadFixed(buf, pos, n, t, acc) ==
    LET b == Read(buf, pos, n)
    IN  IF ~b.some THEN Fail("err", acc) ELSE Done([t |-> t, v |-> Shape(t, b.v)], acc)

\* ParseBufferInt, ParseBufferF32, ParseBufferU32 (width 4), ParseBufferBinary
\* (width 1), read after seek(SeekFrom::Current(-4))
ReadBuffer(buf, data_offset, width, t, acc) ==
    LET pos == data_offset - 4
        size == Read(buf, pos, 4)
    IN  IF pos < 0 \/ ~size.some THEN Fail("err", acc)
        ELSE LET content == Read(buf, pos + 4, U32(size.v) * width)
             IN  IF ~content.some THEN Fail("err", acc)
                 ELSE Done([t |-> t, v |-> IF width = 1 THEN content.v
                                           ELSE Split(content.v, width)], acc)

ReadString(buf, pos, t, acc) ==
    LET name == NullString_read(buf, pos)
    IN  IF ~name.some THEN Fail("err", acc)
        ELSE Done([t |-> t, v |-> name.v], [acc EXCEPT !.names = Append(@, name.v)])

from_parse_param(param, offset, buf, acc) ==
    LET data_offset == offset + param.data_offset * 4
        t == param.param_type
    IN  CASE t = "Bool" -> ReadFixed(buf, data_offset, 1, t, acc)
          [] t \in {"F32", "Int", "U32"} -> ReadFixed(buf, data_offset, 4, t, acc)
          [] t = "Vec2" -> ReadFixed(buf, data_offset, 8, t, acc)
          [] t = "Vec3" -> ReadFixed(buf, data_offset, 12, t, acc)
          [] t \in {"Vec4", "Color", "Quat"} -> ReadFixed(buf, data_offset, 16, t, acc)
          [] t \in {"String32", "String64", "String256", "StringRef"} ->
                ReadString(buf, data_offset, t, acc)
          [] t = "Curve1" -> ReadFixed(buf, data_offset, 128, t, acc)
          [] t = "Curve2" -> ReadFixed(buf, data_offset, 256, t, acc)
          [] t = "Curve3" -> ReadFixed(buf, data_offset, 384, t, acc)
          [] t = "Curve4" -> ReadFixed(buf, data_offset, 512, t, acc)
          [] t \in {"BufferInt", "BufferF32", "BufferU32"} ->
                ReadBuffer(buf, data_offset, 4, t, acc)
          [] t = "BufferBinary" -> ReadBuffer(buf, data_offset, 1, t, acc)

\* the loop of from_parse_obj from parameter i on; map is param_map so far
RECURSIVE ParseParams(_, _, _, _, _, _)
ParseParams(pobj, offset, buf, i, map, acc) ==
    IF i >= pobj.num_params THEN Done(map, acc)
    ELSE Let(offset + pobj.params_rel_offset * 4 + 8 * i, LAMBDA off :
         Let(ParseParameter_read(buf, off), LAMBDA param :
             IF param.st = "err" THEN Fail("err", acc)
             ELSE IF param.st = "panic" THEN Fail("panic", [acc EXCEPT !.reads = @ + 1])
             ELSE Let(from_parse_param(param.v, off, buf, [acc EXCEPT !.reads = @ + 1]),
                      LAMBDA r :
                      IF r.st # "ok" THEN r
                      ELSE ParseParams(pobj, offset, buf, i + 1,
                                       IMInsert(map, param.v.crc, r.v), r))))

from_parse_obj(pobj, offset, buf, acc) == ParseParams(pobj, offset, buf, 0, <<>>, acc)

\* the second loop of from_parse_list from object i on; map is obj_map so far
RECURSIVE ParseObjs(_, _, _, _, _, _)
ParseObjs(plist, offset, buf, i, map, acc) ==
    IF i >= plist.num_objs THEN Done(map, acc)
    ELSE Let(offset + plist.objs_rel_offset * 4 + 8 * i, LAMBDA off :
         Let(ParseParameterObject_read(buf, off), LAMBDA obj :
             IF ~obj.some THEN Fail("err", acc)
             ELSE Let(from_parse_obj(obj.v, off, buf, [acc EXCEPT !.reads = @ + 1]),
                      LAMBDA r :
                      IF r.st # "ok" THEN r
                      ELSE ParseObjs(plist, offset, buf, i + 1,
                                     IMInsert(map, obj.v.crc, r.v), r))))

RECURSIVE from_parse_list(_, _, _, _)
\* the first loop of from_parse_list from sublist i on; map is list_map so far
RECURSIVE ParseLists(_, _, _, _, _, _)
ParseLists(plist, offset, buf, i, map, acc) ==
    IF i >= plist.num_lists THEN Done(map, acc)
    ELSE Let(offset + plist.lists_rel_offset * 4 + 12 * i, LAMBDA off :
         Let(ParseParameterList_read(buf, off), LAMBDA list :
             IF ~list.some THEN Fail("err", acc)
             ELSE IF acc.depth >= StackLimit
             THEN Fail("overflow", [acc EXCEPT !.reads = @ + 1])
             ELSE Let(from_parse_list(list.v, off, buf,
                                      [acc EXCEPT !.reads = @ + 1, !.depth = @ + 1]),
                      LAMBDA r :
                      IF r.st # "ok" THEN r
                      ELSE ParseLists(plist, offset, buf, i + 1,
                                      IMInsert(map, list.v.crc, r.v),
                                      [r EXCEPT !.depth = acc.depth]))))

from_parse_list(plist, offset, buf, acc) ==
    Let(ParseLists(plist, offset, buf, 0, <<>>, acc), LAMBDA list_map :
        IF list_map.st # "ok" THEN list_map
        ELSE Let(ParseObjs(plist, offset, buf, 0, <<>>, list_map), LAMBDA obj_map :
                 IF obj_map.st # "ok" THEN obj_map
                 ELSE Done([lists |-> list_map.v, objects |-> obj_map.v], obj_map)))

\* ParseHeader's assert(version == 2 && flags & 1 == 1) on the 44 header bytes
HeaderValid(h) == SubSeq(h, 1, 4) = LE32(2) /\ h[5] % 2 = 1

\* mutant: the header is read but its magic and its assert are not checked
ParseParameterIO_read_unchecked(buf) ==
    LET h == Read(buf, 4, 44)
        pio_type == NullString_read(buf, 48)
    IN  IF ~h.some \/ ~pio_type.some THEN None
        ELSE Some([header |-> [pio_version |-> SubSeq(h.v, 13, 16),
                               pio_offset |-> U32(SubSeq(h.v, 17, 20))],
                   pio_type |-> pio_type.v])

\* ParseParameterIO::read: the magic, the header and its assert, the type
\* string, in that order
ParseParameterIO_read(buf) ==
    LET magic == Read(buf, 0, 4)
        h == Read(buf, 4, 44)
        pio_type == NullString_read(buf, 48)
    IN  IF ~magic.some \/ magic.v # <<65, 65, 77, 80>> THEN None
        ELSE IF ~h.some \/ ~HeaderValid(h.v) THEN None
        ELSE IF ~pio_type.some THEN None
        ELSE Some([header |-> [pio_version |-> SubSeq(h.v, 13, 16),
                               pio_offset |-> U32(SubSeq(h.v, 17, 20))],
                   pio_type |-> pio_type.v])

from_binary(buf) ==
    Let(ParseParameterIO_read(buf), LAMBDA ppio :
        IF ~ppio.some THEN Fail("err", [names |-> <<>>, reads |-> 0, depth |-> 0])
        ELSE Let(ppio.v.header.pio_offset + 48, LAMBDA offset :
             Let(ParseParameterList_read(buf, offset), LAMBDA parse_pio :
                 IF ~parse_pio.some THEN Fail("err", [names |-> <<>>, reads |-> 0, depth |-> 0])
                 ELSE Let(from_parse_list(parse_pio.v, offset, buf,
                                          [names |-> <<>>, reads |-> 1, depth |-> 1]), LAMBDA param_root :
                          IF param_root.st # "ok" THEN param_root
                          ELSE Done([version |-> ppio.v.header.pio_version,
                                     pio_type |-> ppio.v.pio_type,
                                     lists |-> param_root.v.lists,
                                     objects |-> param_root.v.objects], param_root)))))

(***************************************************************************)
(* The documents a caller builds                                           *)
(***************************************************************************)
MaxNodes == 4   \* a generated tree has at most MaxNodes lists, objects and parameters
MaxElems == 3   \* a generated buffer has at most MaxElems elements

\* f32 bit patterns: 1.0, 2.0, 3.0, 4.0, 5.0, -0.5
FloatSamples ==
    << <<0, 0, 128, 63>>, <<0, 0, 0, 64>>, <<0, 0, 64, 64>>, <<0, 0, 128, 64>>,
       <<0, 0, 160, 64>>, <<0, 0, 0, 191>> >>

\* n elements of 4 bytes each, the first from FloatSamples
Elems(n) == [i \in 1..n |-> IF i <= Len(FloatSamples) THEN FloatSamples[i] ELSE LE32(i)]

Param(t, v) == [t |-> t, v |-> v]

Curve(k) ==
    [a |-> LE32(k), b |-> LE32(30),
     floats |-> [i \in 1..30 |-> FloatSamples[((i + k) % Len(FloatSamples)) + 1]]]

\* the parameters the objects of a generated tree hold, by position
ShapeParams ==
    << Param("Int", <<7, 0, 0, 0>>),
       Param("String32", <<97, 98>>),                  \* "ab"
       Param("BufferF32", Elems(3)),
       Param("Bool", TRUE),
       Param("StringRef", <<>>) >>

\* one of each variant, the strings and the buffers in several lengths
SampleStrings ==
    << <<>>, <<97>>, <<97, 98, 99>>, <<97, 98, 99, 100>>, <<97, 32, 98, 99, 100>> >>
StringTypes == <<"String32", "String64", "String256", "StringRef">>
WordBufferTypes == <<"BufferInt", "BufferF32", "BufferU32">>

ValueParams ==
    << Param("Bool", TRUE), Param("Bool", FALSE),
       Param("F32", <<0, 0, 128, 63>>), Param("Int", <<251, 255, 255, 255>>),
       Param("U32", <<255, 255, 255, 255>>),
       Param("Vec2", Elems(2)), Param("Vec3", Elems(3)), Param("Vec4", Elems(4)),
       Param("Color", Elems(4)), Param("Quat", Elems(4)),
       Param("Curve1", <<Curve(1)>>), Param("Curve2", <<Curve(1), Curve(2)>>),
       Param("Curve3", <<Curve(1), Curve(2), Curve(3)>>),
       Param("Curve4", <<Curve(1), Curve(2), Curve(3), Curve(4)>>) >>
    \o Concat([i \in 1..Len(StringTypes) |->
                  [k \in 1..Len(SampleStrings) |-> Param(StringTypes[i], SampleStrings[k])]])
    \o Concat([i \in 1..Len(WordBufferTypes) |->
                  [n \in 1..(MaxElems + 1) |-> Param(WordBufferTypes[i], Elems(n - 1))]])
    \o [n \in 1..(MaxElems + 1) |-> Param("BufferBinary", [k \in 1..(n - 1) |-> 200 + k])]

\* the parameters put side by side in one object, in both orders
PairParams ==
    << Param("Int", <<7, 0, 0, 0>>), Param("String32", <<97, 98, 99>>),
       Param("BufferBinary", <<201, 202, 203>>), Param("StringRef", <<>>),
       Param("Bool", TRUE), Param("BufferF32", Elems(3)) >>

Pairs ==
    Concat([i \in 1..Len(PairParams) |->
              [k \in 1..(Len(PairParams) - 1) |->
                  <<PairParams[i], PairParams[IF k < i THEN k ELSE k + 1]>>]])

PARAM_ROOT == <<112, 97, 114, 97, 109, 95, 114, 111, 111, 116>>   \* "param_root"

\* the names of the i-th sublist, object and parameter (from 0) of the
\* container named P
ListStems == << <<76, 105, 115, 116, 115>>,                                  \* "Lists"
                <<76, 105, 110, 107, 84, 97, 114, 103, 101, 116, 115>>,      \* "LinkTargets"
                <<67, 104, 105, 108, 100, 114, 101, 110>>,                   \* "Children"
                <<66, 111, 120, 101, 115>> >>                                \* "Boxes"
ListName(P, i) ==
    ListStems[(i % Len(ListStems)) + 1]
        \o (IF i >= Len(ListStems) THEN FmtDec(i \div Len(ListStems)) ELSE <<>>)
ObjName(P, i) ==
    IF i % 2 = 0 THEN P \o FmtDec(i) ELSE <<79, 98, 106>> \o FmtDec(i)      \* "Obj"
ParamName(P, i) ==
    IF i = 0 THEN <<78, 97, 109, 101>> ELSE <<86, 97, 108>> \o FmtDec(i)    \* "Name", "Val"

hash_name(name) == Crc32(name)

\* the ways to split a > 0 nodes among objects: each part is an object
\* and its parameters
RECURSIVE Comps(_)
Comps(a) ==
    IF a = 0 THEN {<<>>}
    ELSE UNION {{<<k>> \o r : r \in Comps(a - k)} : k \in 1..a}

ObjectOf(P, k) ==
    [j \in 1..k |-> <<hash_name(ParamName(P, j - 1)),
                      ShapeParams[((j - 1) % Len(ShapeParams)) + 1]>>]

Objects(P, a) ==
    { [i \in 1..Len(c) |-> <<hash_name(ObjName(P, i - 1)),
                             ObjectOf(ObjName(P, i - 1), c[i] - 1)>>] : c \in Comps(a) }

\* the contents of a list named P with n nodes below it, and the sublists
\* from index i on with b nodes among them
RECURSIVE ListContents(_, _)
RECURSIVE ListForest(_, _, _)
ListForest(P, b, i) ==
    IF b = 0 THEN {<<>>}
    ELSE UNION {{ << <<hash_name(ListName(P, i)), l>> >> \o rest :
                     l \in ListContents(ListName(P, i), m - 1),
                     rest \in ListForest(P, b - m, i + 1) } : m \in 1..b}
ListContents(P, n) ==
    UNION {{ [lists |-> lf, objects |-> os] :
                 os \in Objects(P, a), lf \in ListForest(P, n - a, 0) } : a \in 0..n}

ParameterIO(version, pio_type, root) ==
    [version |-> version, pio_type |-> pio_type, lists |-> root.lists, objects |-> root.objects]

XML == <<120, 109, 108>>    \* "xml"

ShapeDocs ==
    UNION {{ParameterIO(LE32(0), XML, root) : root \in ListContents(PARAM_ROOT, n)} :
              n \in 0..MaxNodes}

OneObject(params) ==
    [lists |-> <<>>,
     objects |-> << <<hash_name(ObjName(PARAM_ROOT, 0)),
                      [j \in 1..Len(params) |->
                          <<hash_name(ParamName(PARAM_ROOT, j - 1)), params[j]>>]>> >>]

SampleTypes == << <<>>, <<97>>, <<97, 98, 99, 100>>, <<120, 109, 108, 97, 98>> >>

ValueDocs ==
    [i \in 1..Len(ValueParams) |-> ParameterIO(LE32(0), XML, OneObject(<<ValueParams[i]>>))]
    \o [i \in 1..Len(Pairs) |-> ParameterIO(LE32(0), XML, OneObject(Pairs[i]))]
    \o [i \in 1..Len(SampleTypes) |->
           ParameterIO(LE32(258), SampleTypes[i], OneObject(<<Param("Int", <<7, 0, 0, 0>>)>>))]


(***************************************************************************)
(* The binary codec as a state machine: a caller encodes its document,     *)
(* the archive may be damaged before it is read back, the caller decodes   *)
(* it and may carry on with the decoded tree.                              *)
(***************************************************************************)
InitBin ==
    /\ table = TABLE_init
    /\ \/ pio \in ShapeDocs
       \/ \E i \in 1..Len(ValueDocs) : pio = ValueDocs[i]
    /\ bytes = <<>>
    /\ text = <<>>
    /\ res = [op |-> "none", origin |-> "built"]

\* bytes = pio.to_binary()
ToBinary ==
    /\ res.op = "none"
    /\ bytes' = to_binary(pio)
    /\ res' = [op |-> "to_binary", origin |-> res.origin, damaged |-> {}]
    /\ UNCHANGED <<table, pio, text>>

\* where the archive's parameter records start, from its header counts
ParamSection(buf) ==
    48 + U32(SubSeq(buf, 21, 24)) + 12 * U32(SubSeq(buf, 25, 28)) + 8 * U32(SubSeq(buf, 29, 32))
NumParams(buf) == U32(SubSeq(buf, 33, 36))
\* the position of parameter record i (from 0) and of its type byte (from 1)
ParamRecord(buf, i) == ParamSection(buf) + 8 * i
TypeByte(buf, i) == ParamRecord(buf, i) + 8

\* the archive the decoder is given differs from the one written: in a
\* byte of the magic, in the version, in the flags
DamageHeader(kind) ==
    /\ res.op = "to_binary"
    /\ res.damaged \cap {"magic", "version", "flags", "flags_ok"} = {}
    /\ bytes' = CASE kind = "magic" -> [bytes EXCEPT ![4] = 81]
                  [] kind = "version" -> [bytes EXCEPT ![5] = 3]
                  [] kind = "flags" -> [bytes EXCEPT ![9] = 2]
                  [] kind = "flags_ok" -> [bytes EXCEPT ![9] = 1]
    /\ res' = [res EXCEPT !.damaged = @ \cup {kind}]
    /\ UNCHANGED <<table, pio, text>>

\* ... or in the type byte of parameter record i
DamageType(i, d) ==
    /\ res.op = "to_binary"
    /\ "type" \notin res.damaged
    /\ i < NumParams(bytes)
    /\ bytes' = [bytes EXCEPT ![TypeByte(bytes, i)] = d]
    /\ res' = [res EXCEPT !.damaged = @ \cup {"type"}]
    /\ UNCHANGED <<table, pio, text>>

\* the position of list record i (from 0) of the archive; record 0 is the root's
NumLists(buf) == U32(SubSeq(buf, 25, 28))
ListRecordAt(buf, i) == 48 + U32(SubSeq(buf, 21, 24)) + 12 * i

\* ... or in the child-list offset of list record i, a list with children:
\* with the offset 0 the record names itself as its first child
DamageListOffset(i) ==
    /\ res.op = "to_binary"
    /\ res.damaged = {}
    /\ i < NumLists(bytes)
    /\ \E p \in {ListRecordAt(bytes, i)} :
          /\ U16(SubSeq(bytes, p + 7, p + 8)) > 0
          /\ bytes' = [bytes EXCEPT ![p + 5] = 0, ![p + 6] = 0]
    /\ res' = [res EXCEPT !.damaged = {"self_list"}]
    /\ UNCHANGED <<table, pio, text>>

\* bs with the 4 bytes at position p (from 0) written at position q
CopyHash(bs, p, q) ==
    [bs EXCEPT ![q + 1] = bs[p + 1], ![q + 2] = bs[p + 2], ![q + 3] = bs[p + 3],
               ![q + 4] = bs[p + 4]]

\* the positions of the first two records under the root: its child lists,
\* its objects, or the parameters of its first object; None when there are
\* fewer than two
SiblingRecords(buf, kind) ==
    Let(ListRecordAt(buf, 0), LAMBDA root :
    Let(root + 4 * U16(SubSeq(buf, root + 9, root + 10)), LAMBDA obj :
        CASE kind = "lists" ->
                IF U16(SubSeq(buf, root + 7, root + 8)) < 2 THEN None
                ELSE Some(<<root + 4 * U16(SubSeq(buf, root + 5, root + 6)),
                            root + 4 * U16(SubSeq(buf, root + 5, root + 6)) + 12>>)
          [] kind = "objects" ->
                IF U16(SubSeq(buf, root + 11, root + 12)) < 2 THEN None
                ELSE Some(<<obj, obj + 8>>)
          [] kind = "params" ->
                IF U16(SubSeq(buf, root + 11, root + 12)) < 1 THEN None
                ELSE IF U16(SubSeq(buf, obj + 7, obj + 8)) < 2 THEN None
                ELSE Some(<<obj + 4 * U16(SubSeq(buf, obj + 5, obj + 6)),
                            obj + 4 * U16(SubSeq(buf, obj + 5, obj + 6)) + 8>>)))

\* ... or in the hash of a record, which then is the hash of the sibling
\* record before it
DamageHash(kind) ==
    /\ res.op = "to_binary"
    /\ res.damaged = {}
    /\ \E r \in {SiblingRecords(bytes, kind)} :
          /\ r.some
          /\ bytes' = CopyHash(bytes, r.v[1], r.v[2])
    /\ res' = [res EXCEPT !.damaged = {"same_hash"}]
    /\ UNCHANGED <<table, pio, text>>

\* ParameterIO::from_binary(&mut Cursor::new(bytes))
FromBinary ==
    /\ res.op = "to_binary"
    /\ \E r \in {from_binary(bytes)} :
           /\ res' = [op |-> "from_binary", st |-> r.st, reads |-> r.reads,
                      pio |-> IF r.st = "ok" THEN Some(r.v) ELSE None,
                      origin |-> res.origin, damaged |-> res.damaged]
           /\ table' = AddAll(table, r.names, 1)
    /\ UNCHANGED <<pio, bytes, text>>

\* the caller keeps the tree it decoded
KeepDecoded ==
    /\ res.op = "from_binary"
    /\ res.st = "ok"
    /\ pio' = res.pio.v
    /\ bytes' = <<>>
    /\ res' = [op |-> "none", origin |-> "decoded"]
    /\ UNCHANGED <<table, text>>

NextBin ==
    \/ ToBinary
    \/ \E kind \in {"magic", "version", "flags", "flags_ok"} : DamageHeader(kind)
    \/ \E i \in 0..(MaxNodes - 1), d \in {21, 255} : DamageType(i, d)
    \/ \E i \in 0..(MaxNodes - 1) : DamageListOffset(i)
    \/ \E kind \in {"lists", "objects", "params"} : DamageHash(kind)
    \/ FromBinary
    \/ KeepDecoded

SpecBin == InitBin /\ [][NextBin]_vars

(***************************************************************************)
(* Claims about the binary codec                                           *)
(***************************************************************************)
\* C1: for every valid tree D, from_binary of D.to_binary() succeeds and
\* returns a tree equal to D: version, type string and every list, object
\* and parameter at every depth; also when D was itself decoded.
C1_BinaryRoundTrip ==
    (res.op = "from_binary" /\ res.damaged = {}) =>
        (res.st = "ok" /\ res.pio = Some(pio))

C1_Witness ==
    /\ res.op = "from_binary"
    /\ res.damaged = {}
    /\ res.origin = "decoded"
    /\ res.st = "ok"
    /\ pio.lists # <<>>
    /\ pio.lists[1][2].lists # <<>>
    /\ pio.lists[1][2].lists[1][2].objects # <<>>
    /\ pio.lists[1][2].lists[1][2].objects[1][2] # <<>>

\* the header of the archive fails validation
BadHeader(buf) ==
    \/ SubSeq(buf, 1, 4) # <<65, 65, 77, 80>>
    \/ SubSeq(buf, 5, 8) # <<2, 0, 0, 0>>
    \/ buf[9] % 2 = 0

\* C3: from_binary returns an error and no tree when the magic is not
\* "AAMP", the version is not 2 or the low bit of the flags is clear, and
\* it has read no list, object or parameter record by then.
C3_HeaderChecked ==
    (res.op = "from_binary" /\ BadHeader(bytes)) =>
        (res.st = "err" /\ res.pio = None /\ res.reads = 0)

C3_Witness ==
    /\ res.op = "from_binary"
    /\ res.damaged = {"flags", "type"}
    /\ BadHeader(bytes)
    /\ res.st = "err"

\* some parameter record of the archive has a type byte that is no discriminant
BadDiscriminant(buf) ==
    \E i \in 0..(NumParams(buf) - 1) : buf[TypeByte(buf, i)] > 20

\* C4: when a parameter record reached by the decoder has a type byte
\* outside 0..20, from_binary returns an error value (the caller is not
\* aborted) and no tree.
C4_BadDiscriminantIsError ==
    (res.op = "from_binary" /\ ~BadHeader(bytes) /\ BadDiscriminant(bytes)) =>
        (res.st = "err" /\ res.pio = None)

\* the parameters of a tree in the order of their records
RECURSIVE ParamsInOrder(_, _)
ParamsInOrder(lists, objects) ==
    Concat([i \in 1..Len(objects) |->
               [j \in 1..Len(objects[i][2]) |-> objects[i][2][j][2]]])
    \o Concat([i \in 1..Len(lists) |-> ParamsInOrder(lists[i][2].lists, lists[i][2].objects)])

ElementBytes(param) == IF param.t = "BufferBinary" THEN param.v ELSE Concat(param.v)

\* Scenario D: a BufferF32 record whose offset points one word past the count 3
ScenarioD ==
    <<1, 2, 3, 4, 3, 0, 0, 14>> \o LE32(3) \o Concat(Elems(3))

\* C9: for each buffer kind the archive holds the element count in the
\* word before the elements and the record's offset points at the first
\* element; the decoder steps back 4 bytes, reads the count and that many
\* elements, so Scenario D decodes to [1.0, 2.0, 3.0].
C9_BufferLayout ==
    /\ (res.op = "to_binary" /\ res.damaged = {}) =>
          LET ps == ParamsInOrder(pio.lists, pio.objects)
          IN  \A i \in 1..Len(ps) :
                is_buffer(ps[i]) =>
                    LET rec == ParamRecord(bytes, i - 1)
                        off == rec + 4 * U24(SubSeq(bytes, rec + 5, rec + 7))
                        elems == ElementBytes(ps[i])
                    IN  /\ Read(bytes, off - 4, 4) = Some(LE32(Len(ps[i].v)))
                        /\ Read(bytes, off, Len(elems)) = Some(elems)
                        /\ from_parse_param(ParseParameter_read(bytes, rec).v, rec, bytes,
                                            [names |-> <<>>, reads |-> 0, depth |-> 0]).v = ps[i]
    /\ from_parse_param(ParseParameter_read(ScenarioD, 0).v, 0, ScenarioD,
                        [names |-> <<>>, reads |-> 0, depth |-> 0]).v = Param("BufferF32", Elems(3))

C9_Witness ==
    /\ res.op = "to_binary"
    /\ res.damaged = {}
    /\ \E i \in 1..Len(pio.objects) : \E j \in 1..Len(pio.objects[i][2]) :
          /\ pio.objects[i][2][j][2] = Param("BufferF32", Elems(3))
          /\ j > 1

(***************************************************************************)
(* Numbers as text: what format!, str::parse and parse_int::parse do       *)
(***************************************************************************)
\* a u32 as its two 16-bit halves [hi, lo], and back
Halves(b) == [hi |-> b[3] + 256 * b[4], lo |-> b[1] + 256 * b[2]]
FromHalves(h) == LE16(h.lo) \o LE16(h.hi)

IsDigit(c) == c >= 48 /\ c <= 57

\* the decimal digits of the number hi * 65536 + lo
RECURSIVE HalvesDigits(_, _)
HalvesDigits(hi, lo) ==
    IF hi = 0 /\ lo < 10 THEN <<48 + lo>>
    ELSE HalvesDigits(hi \div 10, ((hi % 10) * 65536 + lo) \div 10)
            \o <<48 + (((hi % 10) * 65536 + lo) % 10)>>

\* format!("{}", u) for a u32
FmtU32(b) == HalvesDigits(Halves(b).hi, Halves(b).lo)

\* format!("{}", i) for an i32
FmtI32(b) ==
    IF b[4] < 128 THEN FmtU32(b)
    ELSE <<45>> (* "-" *) \o (IF Halves(b).lo = 0
                  THEN HalvesDigits(65536 - Halves(b).hi, 0)
                  ELSE HalvesDigits(65535 - Halves(b).hi, 65536 - Halves(b).lo))

HexDigit(n) == IF n < 10 THEN 48 + n ELSE 55 + n

\* the value of a digit of the radix, -1 for any other character
DigitValue(c, radix) ==
    LET v == IF IsDigit(c) THEN c - 48
             ELSE IF c >= 97 /\ c <= 122 THEN c - 87
             ELSE IF c >= 65 /\ c <= 90 THEN c - 55
             ELSE 99
    IN  IF v < radix THEN v ELSE -1

\* format!("{:X}", u) for a u32
RECURSIVE StripZeros(_)
StripZeros(s) == IF Len(s) > 1 /\ s[1] = 48 THEN StripZeros(Tail(s)) ELSE s
FmtHex(b) ==
    StripZeros(<<HexDigit(b[4] \div 16), HexDigit(b[4] % 16), HexDigit(b[3] \div 16),
                 HexDigit(b[3] % 16), HexDigit(b[2] \div 16), HexDigit(b[2] % 16),
                 HexDigit(b[1] \div 16), HexDigit(b[1] % 16)>>)

\* the digits s[i..] of the radix added to the number h; None when a
\* character is no digit or the number leaves 32 bits
RECURSIVE Accumulate(_, _, _, _)
Accumulate(s, i, radix, h) ==
    IF i > Len(s) THEN Some(h)
    ELSE IF DigitValue(s[i], radix) < 0 THEN None
    ELSE IF h.hi * radix + ((h.lo * radix + DigitValue(s[i], radix)) \div 65536) >= 65536
         THEN None
    ELSE Accumulate(s, i + 1, radix,
            [hi |-> h.hi * radix + ((h.lo * radix + DigitValue(s[i], radix)) \div 65536),
             lo |-> (h.lo * radix + DigitValue(s[i], radix)) % 65536])

\* u32::from_str_radix: an optional + and at least one digit
from_str_radix_u32(s, radix) ==
    IF s = <<>> THEN None
    ELSE IF s[1] = 43 THEN (IF Len(s) = 1 THEN None ELSE Accumulate(s, 2, radix, [hi |-> 0, lo |-> 0]))
    ELSE Accumulate(s, 1, radix, [hi |-> 0, lo |-> 0])

\* s.parse::<u32>(): Some(bytes) or None
parse_u32(s) ==
    IF from_str_radix_u32(s, 10).some THEN Some(FromHalves(from_str_radix_u32(s, 10).v))
    ELSE None

\* s.parse::<i32>(): an optional sign, digits, a value in -2^31..2^31-1
parse_i32(s) ==
    IF s = <<>> THEN None
    ELSE IF s[1] = 45
    THEN Let(from_str_radix_u32(<<43>> (* "+" *) \o Tail(s), 10), LAMBDA m :
             IF ~m.some \/ m.v.hi > 32768 \/ (m.v.hi = 32768 /\ m.v.lo > 0) THEN None
             ELSE IF m.v.hi = 0 /\ m.v.lo = 0 THEN Some(LE32(0))
             ELSE IF m.v.lo = 0 THEN Some(FromHalves([hi |-> 65536 - m.v.hi, lo |-> 0]))
             ELSE Some(FromHalves([hi |-> 65535 - m.v.hi, lo |-> 65536 - m.v.lo])))
    ELSE Let(from_str_radix_u32(s, 10), LAMBDA m :
             IF ~m.some \/ m.v.hi >= 32768 THEN None ELSE Some(FromHalves(m.v)))

\* str::trim for the space character
RECURSIVE TrimLeft(_)
TrimLeft(s) == IF s # <<>> /\ s[1] = 32 THEN TrimLeft(Tail(s)) ELSE s
RECURSIVE TrimRight(_)
TrimRight(s) == IF s # <<>> /\ s[Len(s)] = 32 THEN TrimRight(SubSeq(s, 1, Len(s) - 1)) ELSE s

\* parse_int::parse::<u32>: trimmed, 0x / 0o / 0b select the radix,
\* underscores are dropped; Some(halves) or None
parse_int_u32(input) ==
    Let(TrimRight(TrimLeft(input)), LAMBDA s :
        IF s # <<>> /\ s[1] = 95 THEN None
        ELSE IF StartsAt(s, <<48, 120>> (* "0x" *), 1)
             THEN from_str_radix_u32(SelectSeq(SubSeq(s, 3, Len(s)), LAMBDA c : c # 95), 16)
        ELSE IF StartsAt(s, <<48, 111>> (* "0o" *), 1)
             THEN from_str_radix_u32(SelectSeq(SubSeq(s, 3, Len(s)), LAMBDA c : c # 95), 8)
        ELSE IF StartsAt(s, <<48, 98>> (* "0b" *), 1)
             THEN from_str_radix_u32(SelectSeq(SubSeq(s, 3, Len(s)), LAMBDA c : c # 95), 2)
        ELSE from_str_radix_u32(SelectSeq(s, LAMBDA c : c # 95), 10))

\* parse_int::parse::<usize>(string).is_ok(), for numbers below 2^32
parse_int_usize_is_ok(string) == parse_int_u32(string).some

\* the sample f32 values: bits, ryu's shortest text, format!("{:?}", f)
FloatTable ==
    << << <<0, 0, 128, 63>>, <<49, 46, 48>> (* "1.0" *), <<49, 46, 48>> (* "1.0" *) >>,
       << <<0, 0, 0, 64>>, <<50, 46, 48>> (* "2.0" *), <<50, 46, 48>> (* "2.0" *) >>,
       << <<0, 0, 64, 64>>, <<51, 46, 48>> (* "3.0" *), <<51, 46, 48>> (* "3.0" *) >>,
       << <<0, 0, 128, 64>>, <<52, 46, 48>> (* "4.0" *), <<52, 46, 48>> (* "4.0" *) >>,
       << <<0, 0, 160, 64>>, <<53, 46, 48>> (* "5.0" *), <<53, 46, 48>> (* "5.0" *) >>,
       << <<0, 0, 0, 191>>, <<45, 48, 46, 53>> (* "-0.5" *), <<45, 48, 46, 53>> (* "-0.5" *) >>,
       << <<0, 0, 192, 63>>, <<49, 46, 53>> (* "1.5" *), <<49, 46, 53>> (* "1.5" *) >>,
       << <<0, 0, 0, 0>>, <<48, 46, 48>> (* "0.0" *), <<48, 46, 48>> (* "0.0" *) >>,
       << <<249, 2, 21, 80>>, <<49, 101, 49, 48>> (* "1e10" *), <<49, 48, 48, 48, 48, 48, 48, 48, 48, 48, 48, 46, 48>> (* "10000000000.0" *) >>,
       << <<0, 0, 128, 127>>, <<105, 110, 102>> (* "inf" *), <<105, 110, 102>> (* "inf" *) >> >>

FloatRow(f) == FloatTable[CHOOSE i \in 1..Len(FloatTable) : FloatTable[i][1] = f]

\* ryu::Buffer::format(f)
ryu_format(f) == FloatRow(f)[2]

\* format!("{:?}", f)
FmtDebugF32(f) == FloatRow(f)[3]

\* s.parse::<f32>()
parse_f32(s) ==
    IF \E i \in 1..Len(FloatTable) : s \in {FloatTable[i][2], FloatTable[i][3]}
    THEN Some(FloatTable[CHOOSE i \in 1..Len(FloatTable) :
                             s \in {FloatTable[i][2], FloatTable[i][3]}][1])
    ELSE None

(***************************************************************************)
(* yaml/emit.rs: the text encoder                                          *)
(***************************************************************************)
\* slice::join
Join(ss, sep) ==
    Concat([i \in 1..Len(ss) |-> IF i < Len(ss) THEN ss[i] \o sep ELSE ss[i]])

\* the writer: what was written, and whether the encoder has panicked
Writer_new == [out |-> <<>>, panicked |-> FALSE]
Write(w, s) == IF w.panicked THEN w ELSE [w EXCEPT !.out = @ \o s]

INDENTS == [i \in 1..20 |-> [k \in 1..(2 * (i - 1)) |-> 32]]

\* write!(writer, "\n{}{}", &INDENTS[level], s): indexing past the array panics
WriteLine(w, level, s) ==
    IF level >= Len(INDENTS) THEN [w EXCEPT !.panicked = TRUE]
    ELSE Write(w, <<10>> (* "\n" *) \o INDENTS[level + 1] \o s)

\* a name that reads as a u32 is written as that number in quotes
Requote(s) ==
    IF parse_u32(s).some THEN <<34>> (* "\"" *) \o FmtU32(parse_u32(s).v) \o <<34>> (* "\"" *) ELSE s

try_get_name(t, crc, parent, idx) ==
    IF get_name(t, crc).some THEN Requote(get_name(t, crc).v)
    ELSE Let(guess_name(crc, parent, idx), LAMBDA g :
             IF g.some THEN Requote(g.v) ELSE FmtU32(crc))

write_string(w, string) ==
    IF Contains(string, <<32>> (* " " *)) \/ parse_int_usize_is_ok(string) \/ Len(string) = 0
    THEN Write(Write(Write(w, <<34>> (* "\"" *)), string), <<34>> (* "\"" *))
    ELSE Write(w, string)

\* seq holds the elements as format!("{}", x) writes them
write_seq(w, seq, count) ==
    Write(Write(Write(w, <<91>> (* "[" *)),
                Concat([i \in 1..Len(seq) |->
                           IF i - 1 < count - 1 THEN seq[i] \o <<44, 32>> (* ", " *) ELSE seq[i]])),
          <<93>> (* "]" *))

write_float_seq(w, seq, count) ==
    write_seq(w, [i \in 1..Len(seq) |-> ryu_format(seq[i])], count)

curve_to_vec(curve) ==
    Join(<<FmtU32(curve.a), FmtU32(curve.b),
           Join([i \in 1..Len(curve.floats) |-> ryu_format(curve.floats[i])], <<44, 32>> (* ", " *))>>,
         <<44, 32>> (* ", " *))

write_param(w, param) ==
    CASE param.t = "Bool" -> Write(w, IF param.v THEN <<116, 114, 117, 101>> (* "true" *) ELSE <<102, 97, 108, 115, 101>> (* "false" *))
      [] param.t = "BufferBinary" ->
            write_seq(Write(w, <<33, 98, 117, 102, 102, 101, 114, 95, 98, 105, 110, 97, 114, 121, 32>> (* "!buffer_binary " *)),
                      [i \in 1..Len(param.v) |-> FmtDec(param.v[i])], Len(param.v))
      [] param.t = "BufferF32" ->
            write_float_seq(Write(w, <<33, 98, 117, 102, 102, 101, 114, 95, 102, 51, 50, 32>> (* "!buffer_f32 " *)), param.v, Len(param.v))
      [] param.t = "BufferInt" ->
            write_seq(Write(w, <<33, 98, 117, 102, 102, 101, 114, 95, 105, 110, 116, 32>> (* "!buffer_int " *)),
                      [i \in 1..Len(param.v) |-> FmtI32(param.v[i])], Len(param.v))
      [] param.t = "BufferU32" ->
            write_seq(Write(w, <<33, 98, 117, 102, 102, 101, 114, 95, 117, 51, 50, 32>> (* "!buffer_u32 " *)),
                      [i \in 1..Len(param.v) |-> FmtU32(param.v[i])], Len(param.v))
      [] param.t = "Color" -> write_float_seq(Write(w, <<33, 99, 111, 108, 111, 114, 32>> (* "!color " *)), param.v, 4)
      [] param.t \in {"Curve1", "Curve2", "Curve3", "Curve4"} ->
            Write(Write(Write(w, <<33, 99, 117, 114, 118, 101, 32, 91>> (* "!curve [" *)),
                        Join([i \in 1..Len(param.v) |-> curve_to_vec(param.v[i])], <<44, 32>> (* ", " *))),
                  <<93>> (* "]" *))
      [] param.t = "F32" -> Write(w, ryu_format(param.v))
      [] param.t = "Int" -> Write(w, FmtI32(param.v))
      [] param.t = "Quat" -> write_float_seq(Write(w, <<33, 113, 117, 97, 116, 32>> (* "!quat " *)), param.v, 4)
      [] param.t = "String32" -> write_string(Write(w, <<33, 115, 116, 114, 51, 50, 32>> (* "!str32 " *)), param.v)
      [] param.t = "String64" -> write_string(Write(w, <<33, 115, 116, 114, 54, 52, 32>> (* "!str64 " *)), param.v)
      [] param.t = "String256" -> write_string(Write(w, <<33, 115, 116, 114, 50, 53, 54, 32>> (* "!str256 " *)), param.v)
      [] param.t = "StringRef" -> write_string(w, param.v)
      [] param.t = "U32" -> Write(w, <<33, 117, 32, 48, 120>> (* "!u 0x" *) \o FmtHex(param.v))
      [] param.t = "Vec2" -> write_float_seq(Write(w, <<33, 118, 101, 99, 50, 32>> (* "!vec2 " *)), param.v, 2)
      [] param.t = "Vec3" -> write_float_seq(Write(w, <<33, 118, 101, 99, 51, 32>> (* "!vec3 " *)), param.v, 3)
      [] param.t = "Vec4" -> write_float_seq(Write(w, <<33, 118, 101, 99, 52, 32>> (* "!vec4 " *)), param.v, 4)

\* the loop of write_object from the i-th parameter on; a panic ends the
\* encoder, here and in the loops of write_list
RECURSIVE WriteParams(_, _, _, _, _, _)
WriteParams(w, obj, crc, level, t, i) ==
    IF w.panicked \/ i > Len(obj) THEN w
    ELSE WriteParams(
             write_param(
                 WriteLine(w, level, try_get_name(t, obj[i][1], crc, i - 1) \o <<58, 32>> (* ": " *)),
                 obj[i][2]),
             obj, crc, level, t, i + 1)

write_object(w, obj, crc, level, t) ==
    IF Len(obj) > 0 THEN WriteParams(Write(w, <<33, 111, 98, 106>> (* "!obj" *)), obj, crc, level, t, 1)
    ELSE Write(Write(w, <<33, 111, 98, 106>> (* "!obj" *)), <<32, 123, 125>> (* " {}" *))

\* the first loop of write_list from the i-th object on
RECURSIVE WriteObjects(_, _, _, _, _, _)
WriteObjects(w, objects, crc, level, t, i) ==
    IF w.panicked \/ i > Len(objects) THEN w
    ELSE WriteObjects(
             write_object(
                 WriteLine(w, level + 1,
                           try_get_name(t, objects[i][1], crc, i - 1) \o <<58, 32>> (* ": " *)),
                 objects[i][2], objects[i][1], level + 2, t),
             objects, crc, level, t, i + 1)

RECURSIVE write_list(_, _, _, _, _)
\* the second loop of write_list from the i-th child list on
RECURSIVE WriteLists(_, _, _, _, _, _)
WriteLists(w, lists, crc, level, t, i) ==
    IF w.panicked \/ i > Len(lists) THEN w
    ELSE WriteLists(
             write_list(
                 WriteLine(w, level + 1,
                           try_get_name(t, lists[i][1], crc, i - 1) \o <<58, 32>> (* ": " *)),
                 lists[i][2], lists[i][1], level + 2, t),
             lists, crc, level, t, i + 1)

write_list(w, list, crc, level, t) ==
    Let(IF Len(list.objects) > 0
        THEN WriteObjects(WriteLine(Write(w, <<33, 108, 105, 115, 116>> (* "!list" *)), level, <<111, 98, 106, 101, 99, 116, 115, 58>> (* "objects:" *)),
                          list.objects, crc, level, t, 1)
        ELSE Write(WriteLine(Write(w, <<33, 108, 105, 115, 116>> (* "!list" *)), level, <<111, 98, 106, 101, 99, 116, 115, 58>> (* "objects:" *)), <<32, 123, 125>> (* " {}" *)),
        LAMBDA w1 :
            IF Len(list.lists) > 0
            THEN WriteLists(WriteLine(w1, level, <<108, 105, 115, 116, 115, 58>> (* "lists:" *)), list.lists, crc, level, t, 1)
            ELSE Write(WriteLine(w1, level, <<108, 105, 115, 116, 115, 58>> (* "lists:" *)), <<32, 123, 125>> (* " {}" *)))

write_text(self, writer, t) ==
    write_list(Write(writer, <<33, 105, 111, 10, 118, 101, 114, 115, 105, 111, 110, 58, 32>> (* "!io\nversion: " *) \o FmtU32(self.version)
                                 \o <<10, 116, 121, 112, 101, 58, 32>> (* "\ntype: " *) \o self.pio_type \o <<10, 112, 97, 114, 97, 109, 95, 114, 111, 111, 116, 58, 32>> (* "\nparam_root: " *)),
               [lists |-> self.lists, objects |-> self.objects], ROOT_CRC, 1, t)

\* Ok(String) or the panic of the writer
to_text(self, t) == write_text(self, Writer_new, t)

(***************************************************************************)
(* yaml/forked: the YAML event parser, for the block mappings, flow        *)
(* sequences, tags and plain or double-quoted scalars of the text format   *)
(***************************************************************************)
Event(ev, value, style, tag) == [ev |-> ev, value |-> value, style |-> style, tag |-> tag]
Scalar(value, style, tag) == Event("Scalar", value, style, tag)
MappingStart(tag) == Event("MappingStart", <<>>, "Any", tag)
MappingEnd == Event("MappingEnd", <<>>, "Any", None)
SequenceStart(tag) == Event("SequenceStart", <<>>, "Any", tag)
SequenceEnd == Event("SequenceEnd", <<>>, "Any", None)
StreamStart == Event("StreamStart", <<>>, "Any", None)
StreamEnd == Event("StreamEnd", <<>>, "Any", None)
DocumentStart == Event("DocumentStart", <<>>, "Any", None)
DocumentEnd == Event("DocumentEnd", <<>>, "Any", None)

\* the places of the character c in s, in order
Positions(s, c) == SelectSeq([i \in 1..Len(s) |-> i], LAMBDA i : s[i] = c)

\* the pieces of s between the characters c
SplitOn(s, c) ==
    Let(<<0>> \o Positions(s, c) \o <<Len(s) + 1>>, LAMBDA pos :
        [k \in 1..(Len(pos) - 1) |-> SubSeq(s, pos[k] + 1, pos[k + 1] - 1)])

Trim(s) == TrimRight(TrimLeft(s))
LeadingSpaces(line) == Len(line) - Len(TrimLeft(line))

\* a leading !tag and what follows it
ScanTag(rest) ==
    IF rest = <<>> \/ rest[1] # 33 THEN [tag |-> None, body |-> rest]
    ELSE Let(Positions(rest, 32) \o <<Len(rest) + 1>>, LAMBDA sp :
             [tag |-> Some(SubSeq(rest, 2, sp[1] - 1)),
              body |-> TrimLeft(SubSeq(rest, sp[1] + 1, Len(rest)))])

\* a scalar: double-quoted, plain or missing (the empty scalar reads "~")
ScanScalar(body, tag) ==
    IF Len(body) >= 2 /\ body[1] = 34 /\ body[Len(body)] = 34
    THEN Scalar(SubSeq(body, 2, Len(body) - 1), "DoubleQuoted", tag)
    ELSE IF body = <<>> /\ ~tag.some THEN Scalar(<<126>> (* "~" *), "Plain", None)
    ELSE Scalar(body, "Plain", tag)

\* the entries of a flow sequence [a, b, c]
ScanItems(inner) ==
    IF Trim(inner) = <<>> THEN <<>>
    ELSE Let(SplitOn(inner, 44), LAMBDA items :
             [k \in 1..Len(items) |-> ScanScalar(Trim(items[k]), None)])

\* the events of the value after "key:"; opens says the next line lies deeper
ScanNode(tb, opens) ==
    IF tb.body = <<>> /\ opens THEN <<MappingStart(tb.tag)>>
    ELSE IF tb.body = <<123, 125>> (* "{}" *) THEN <<MappingStart(tb.tag), MappingEnd>>
    ELSE IF Len(tb.body) >= 2 /\ tb.body[1] = 91 /\ tb.body[Len(tb.body)] = 93
    THEN <<SequenceStart(tb.tag)>> \o ScanItems(SubSeq(tb.body, 2, Len(tb.body) - 1))
             \o <<SequenceEnd>>
    ELSE <<ScanScalar(tb.body, tb.tag)>>

ScanValue(rest, opens) == ScanNode(ScanTag(rest), opens)

\* the key of a line, plain or double-quoted, and what follows its colon
ScanQuotedKey(content, q) ==
    IF Len(q) < 2 \/ q[2] >= Len(content) \/ content[q[2] + 1] # 58
    THEN [ok |-> FALSE]
    ELSE [ok |-> TRUE, key |-> Scalar(SubSeq(content, 2, q[2] - 1), "DoubleQuoted", None),
          rest |-> TrimLeft(SubSeq(content, q[2] + 2, Len(content)))]

ScanPlainKey(content, colons) ==
    IF colons = <<>> THEN [ok |-> FALSE]
    ELSE [ok |-> TRUE,
          key |-> Scalar(TrimRight(SubSeq(content, 1, colons[1] - 1)), "Plain", None),
          rest |-> TrimLeft(SubSeq(content, colons[1] + 1, Len(content)))]

ScanKey(content) ==
    IF content # <<>> /\ content[1] = 34 THEN ScanQuotedKey(content, Positions(content, 34))
    ELSE ScanPlainKey(content,
             SelectSeq([i \in 1..Len(content) |-> i],
                       LAMBDA i : content[i] = 58
                                    /\ (i = Len(content) \/ content[i + 1] = 32)))

\* the scanner after the i-th line: st holds the indentation of the block
\* mappings that are open and the events so far; None for a line outside
\* the grammar
ScanEntry(lines, i, stack, events, key) ==
    IF stack = <<>> \/ stack[Len(stack)] # LeadingSpaces(lines[i]) \/ ~key.ok THEN None
    ELSE Let(ScanValue(key.rest,
                       i < Len(lines)
                           /\ LeadingSpaces(lines[i + 1]) > LeadingSpaces(lines[i])),
             LAMBDA val :
                 Some([stack |-> IF Len(val) = 1 /\ val[1].ev = "MappingStart"
                                 THEN Append(stack, LeadingSpaces(lines[i + 1])) ELSE stack,
                       events |-> events \o <<key.key>> \o val]))

ScanLine(lines, i, st) ==
    Let(Cardinality({k \in 1..Len(st.stack) : st.stack[k] > LeadingSpaces(lines[i])}),
        LAMBDA pops :
            ScanEntry(lines, i, SubSeq(st.stack, 1, Len(st.stack) - pops),
                      st.events \o [k \in 1..pops |-> MappingEnd],
                      ScanKey(TrimLeft(lines[i]))))

\* the scanner after the lines lo..hi, one after the other
RECURSIVE ScanLines(_, _, _, _)
ScanLines(lines, lo, hi, st) ==
    IF lo > hi \/ ~st.some THEN st
    ELSE IF lo = hi THEN ScanLine(lines, lo, st.v)
    ELSE Let(ScanLines(lines, lo, (lo + hi) \div 2, st), LAMBDA half :
             ScanLines(lines, ((lo + hi) \div 2) + 1, hi, half))

\* the events of the lines from the i-th on, after the events of the head
ScanFrom(lines, i, events) ==
    Let(ScanLines(lines, i, Len(lines), Some([stack |-> <<0>>, events |-> events])),
        LAMBDA st :
            IF ~st.some THEN None
            ELSE Some(st.v.events \o [k \in 1..Len(st.v.stack) |-> MappingEnd]
                          \o <<DocumentEnd, StreamEnd>>))

\* Parser::new(text.chars()) and every event parser.next() will give:
\* Some(events), or None for text outside the grammar
ScanDocument(lines) ==
    IF lines = <<>> THEN Some(<<StreamStart, StreamEnd>>)
    ELSE IF lines[1] # <<>> /\ lines[1][1] = 33
    THEN ScanFrom(lines, 2,
                  <<StreamStart, DocumentStart,
                    MappingStart(Some(SubSeq(lines[1], 2, Len(lines[1]))))>>)
    ELSE ScanFrom(lines, 1, <<StreamStart, DocumentStart, MappingStart(None)>>)

Parser_events(source) ==
    ScanDocument(SelectSeq(SplitOn(source, 10), LAMBDA line : Trim(line) # <<>>))

\* the events of the node that starts at events[i], up to its end:
\* what parser.load_node hands to the receiver
Opens(events, i, j) ==
    Cardinality({k \in i..j : events[k].ev \in {"MappingStart", "SequenceStart"}})
Closes(events, i, j) ==
    Cardinality({k \in i..j : events[k].ev \in {"MappingEnd", "SequenceEnd"}})
NodeEnds(events, i) ==
    SelectSeq([k \in 1..Len(events) |-> k],
              LAMBDA k : /\ k > i
                         /\ events[k].ev \in {"MappingEnd", "SequenceEnd"}
                         /\ Opens(events, i, k) = Closes(events, i, k))
NodeEnd(events, i) ==
    IF events[i].ev \notin {"MappingStart", "SequenceStart"} THEN i
    ELSE IF NodeEnds(events, i) = <<>> THEN Len(events)
    ELSE NodeEnds(events, i)[1]

load_node(events, i) == SubSeq(events, i, NodeEnd(events, i))

(***************************************************************************)
(* yaml/parse.rs: the text decoder                                         *)
(***************************************************************************)
Last(s) == s[Len(s)]
Front(s) == SubSeq(s, 1, Len(s) - 1)

hashit(string) ==
    IF parse_u32(string).some THEN parse_u32(string).v
    ELSE Crc32(Replace(string, <<34>> (* "\"" *), <<>>))

\* x.parse::<T>() or parse_int::parse::<T>(x) of a sequence element
ParseElem(x, kind) ==
    CASE kind = "f32" -> parse_f32(x)
      [] kind = "i32" -> parse_i32(x)
      [] kind = "u32" -> parse_u32(x)
      [] kind = "int_u32" ->
            Let(parse_int_u32(x), LAMBDA h : IF h.some THEN Some(FromHalves(h.v)) ELSE None)
      [] kind = "int_u8" ->
            Let(parse_int_u32(x), LAMBDA h :
                IF h.some /\ h.v.hi = 0 /\ h.v.lo < 256 THEN Some(h.v.lo) ELSE None)

\* seq.iter().map(parse).collect::<Result<Vec<_>>>()
Collect(seq, kind) ==
    IF \A i \in 1..Len(seq) : ParseElem(seq[i], kind).some
    THEN Some([i \in 1..Len(seq) |-> ParseElem(seq[i], kind).v])
    ELSE None

\* Parameter::VecN([seq[0].parse::<f32>()?, ...]): the first element that
\* is missing panics, the first that is no float is an error
FixedFloats(seq, n, t) ==
    IF \E k \in 1..n : k > Len(seq) \/ ~parse_f32(seq[k]).some
    THEN Let(CHOOSE k \in 1..n :
                 /\ k > Len(seq) \/ ~parse_f32(seq[k]).some
                 /\ \A j \in 1..(k - 1) : j <= Len(seq) /\ parse_f32(seq[j]).some,
             LAMBDA k : IF k > Len(seq) THEN [st |-> "panic"] ELSE [st |-> "InvalidFloat"])
    ELSE [st |-> "ok", v |-> Param(t, [i \in 1..n |-> parse_f32(seq[i]).v])]

\* the k-th curve (from 0) of the sequence
CurveAt(seq, k) ==
    [a |-> parse_u32(seq[32 * k + 1]), b |-> parse_u32(seq[32 * k + 2]),
     floats |-> Collect(SubSeq(seq, 32 * k + 3, 32 * k + 32), "f32")]

CurveError(c) ==
    IF ~c.a.some \/ ~c.b.some THEN "InvalidInt"
    ELSE IF ~c.floats.some THEN "InvalidFloat"
    ELSE "ok"

vec_to_curve(seq) ==
    IF Len(seq) % 32 # 0 \/ Len(seq) \div 32 \notin 1..4 THEN [st |-> "panic"]
    ELSE Let([k \in 1..(Len(seq) \div 32) |-> CurveAt(seq, k - 1)], LAMBDA cs :
             IF \E k \in 1..Len(cs) : CurveError(cs[k]) # "ok"
             THEN [st |-> CurveError(cs[CHOOSE k \in 1..Len(cs) :
                                            /\ CurveError(cs[k]) # "ok"
                                            /\ \A j \in 1..(k - 1) : CurveError(cs[j]) = "ok"])]
             ELSE [st |-> "ok",
                   v |-> Param(<<"Curve1", "Curve2", "Curve3", "Curve4">>[Len(cs)],
                               [k \in 1..Len(cs) |->
                                   [a |-> cs[k].a.v, b |-> cs[k].b.v,
                                    floats |-> cs[k].floats.v]])])

Collected(r, t, err) ==
    IF r.some THEN [st |-> "ok", v |-> Param(t, r.v)] ELSE [st |-> err]

\* the parameter a tagged sequence stands for
SequenceParam(tag, seq) ==
    CASE tag = <<118, 101, 99, 50>> (* "vec2" *) -> FixedFloats(seq, 2, "Vec2")
      [] tag = <<118, 101, 99, 51>> (* "vec3" *) -> FixedFloats(seq, 3, "Vec3")
      [] tag = <<118, 101, 99, 52>> (* "vec4" *) -> FixedFloats(seq, 4, "Vec4")
      [] tag = <<113, 117, 97, 116>> (* "quat" *) -> FixedFloats(seq, 4, "Quat")
      [] tag = <<99, 111, 108, 111, 114>> (* "color" *) -> FixedFloats(seq, 4, "Color")
      [] tag = <<99, 117, 114, 118, 101>> (* "curve" *) -> vec_to_curve(seq)
      [] tag = <<98, 117, 102, 102, 101, 114, 95, 105, 110, 116>> (* "buffer_int" *) -> Collected(Collect(seq, "i32"), "BufferInt", "InvalidInt")
      [] tag = <<98, 117, 102, 102, 101, 114, 95, 117, 51, 50>> (* "buffer_u32" *) -> Collected(Collect(seq, "int_u32"), "BufferU32", "InvalidInt")
      [] tag = <<98, 117, 102, 102, 101, 114, 95, 98, 105, 110, 97, 114, 121>> (* "buffer_binary" *) ->
            Collected(Collect(seq, "int_u8"), "BufferBinary", "InvalidInt")
      [] tag = <<98, 117, 102, 102, 101, 114, 95, 102, 51, 50>> (* "buffer_f32" *) -> Collected(Collect(seq, "f32"), "BufferF32", "InvalidFloat")
      [] OTHER -> [st |-> "InvalidPio"]

PioYamlParser_new(version, pio_type, t) ==
    [pio_type |-> pio_type, pio_version |-> version,
     doing_objects |-> FALSE, doing_lists |-> TRUE, doing_param_key |-> FALSE,
     open_seq |-> None, open_tag |-> None, open_params |-> None,
     open_keys |-> <<PARAM_ROOT>>, open_lists |-> <<>>, open_objs |-> <<>>,
     open_list_maps |-> <<>>, error |-> None, pio |-> None, last_event |-> None,
     TABLE |-> t, panicked |-> FALSE]

SetError(self, err) ==
    IF err = "panic" THEN [self EXCEPT !.panicked = TRUE]
    ELSE [self EXCEPT !.error = Some(err)]

\* the parameter a scalar in value position stands for, and whether its
\* text is added to the name table
ScalarParam(val, style, tag) ==
    IF tag.some
    THEN CASE tag.v = <<115, 116, 114, 51, 50>> (* "str32" *) -> [st |-> "ok", v |-> Param("String32", val), add |-> TRUE]
           [] tag.v = <<115, 116, 114, 54, 52>> (* "str64" *) -> [st |-> "ok", v |-> Param("String64", val), add |-> TRUE]
           [] tag.v = <<115, 116, 114, 50, 53, 54>> (* "str256" *) -> [st |-> "ok", v |-> Param("String256", val), add |-> TRUE]
           [] tag.v = <<117>> (* "u" *) ->
                 Let(parse_int_u32(val), LAMBDA h :
                     IF h.some THEN [st |-> "ok", v |-> Param("U32", FromHalves(h.v)),
                                     add |-> FALSE]
                     ELSE [st |-> "InvalidInt", add |-> FALSE])
           [] OTHER -> [st |-> "ok", v |-> Param("StringRef", val), add |-> TRUE]
    ELSE IF style \in {"SingleQuoted", "DoubleQuoted"}
    THEN [st |-> "ok", v |-> Param("StringRef", val), add |-> FALSE]
    ELSE IF parse_i32(val).some
    THEN [st |-> "ok", v |-> Param("Int", parse_i32(val).v), add |-> FALSE]
    ELSE IF parse_f32(val).some
    THEN [st |-> "ok", v |-> Param("F32", parse_f32(val).v), add |-> FALSE]
    ELSE IF val = <<116, 114, 117, 101>> (* "true" *) THEN [st |-> "ok", v |-> Param("Bool", TRUE), add |-> FALSE]
    ELSE IF val = <<102, 97, 108, 115, 101>> (* "false" *) THEN [st |-> "ok", v |-> Param("Bool", FALSE), add |-> FALSE]
    ELSE [st |-> "ok", v |-> Param("StringRef", val), add |-> TRUE]

\* read_scalar with a parameter value: the value goes under the last key
ReadValue(self, val, p) ==
    IF p.st # "ok" THEN SetError(self, p.st)
    ELSE IF self.open_keys = <<>>
    THEN SetError([self EXCEPT !.TABLE = IF p.add THEN add_name(@, val) ELSE @], "InvalidPio")
    ELSE [self EXCEPT !.TABLE = IF p.add THEN add_name(@, val) ELSE @,
                      !.open_keys = Front(@),
                      !.open_params = Some(IMInsert(@.v, hashit(Last(self.open_keys)), p.v)),
                      !.doing_param_key = TRUE]

\* read_scalar with a key
ReadKey(self, val, style) ==
    IF val = <<111, 98, 106, 101, 99, 116, 115>> (* "objects" *)
    THEN [self EXCEPT !.doing_objects = TRUE, !.open_objs = Append(@, <<>>)]
    ELSE IF val = <<108, 105, 115, 116, 115>> (* "lists" *)
    THEN [self EXCEPT !.doing_lists = TRUE, !.open_list_maps = Append(@, <<>>)]
    ELSE [self EXCEPT !.doing_param_key = FALSE,
                      !.open_keys =
                          Append(@, IF style \in {"DoubleQuoted", "SingleQuoted"}
                                       /\ parse_u32(val).some
                                    THEN <<34>> (* "\"" *) \o FmtU32(parse_u32(val).v) \o <<34>> (* "\"" *)
                                    ELSE val)]

read_scalar(self, val, style, tag) ==
    IF self.open_seq.some THEN [self EXCEPT !.open_seq = Some(Append(@.v, val))]
    ELSE IF self.open_params.some /\ ~self.doing_param_key
    THEN ReadValue(self, val, ScalarParam(val, style, tag))
    ELSE ReadKey(self, val, style)

\* on_event for Event::MappingStart
OnMappingStart(self, tag) ==
    IF tag.some
    THEN CASE tag.v = <<108, 105, 115, 116>> (* "list" *) ->
                 [self EXCEPT !.open_lists = Append(@, [lists |-> <<>>, objects |-> <<>>]),
                              !.last_event = Some("MappingStart")]
           [] tag.v = <<111, 98, 106>> (* "obj" *) ->
                 [self EXCEPT !.open_params = Some(<<>>), !.doing_param_key = TRUE,
                              !.last_event = Some("MappingStart")]
           [] OTHER -> SetError(self, "InvalidPio")
    ELSE IF ~(self.doing_lists \/ self.doing_objects) THEN SetError(self, "InvalidPio")
    ELSE [self EXCEPT !.last_event = Some("MappingStart")]

\* on_event for Event::MappingEnd when the last event was a MappingEnd:
\* a child list or the root list is complete
CloseList(self) ==
    IF self.doing_lists /\ Len(self.open_list_maps) > 1
    THEN IF self.open_objs = <<>> \/ self.open_keys = <<>> THEN SetError(self, "InvalidPio")
         ELSE [self EXCEPT
                  !.open_objs = Front(@),
                  !.open_keys = Front(@),
                  !.open_list_maps =
                      Append(SubSeq(@, 1, Len(@) - 2),
                             IMInsert(@[Len(@) - 1], hashit(Last(self.open_keys)),
                                      [lists |-> Last(@), objects |-> Last(self.open_objs)])),
                  !.doing_lists = ~@]
    ELSE IF Len(self.open_list_maps) = 1
    THEN IF self.open_objs = <<>> THEN SetError(self, "InvalidPio")
         ELSE [self EXCEPT
                  !.pio = Some([pio_type |-> self.pio_type, version |-> self.pio_version,
                                lists |-> Last(self.open_list_maps),
                                objects |-> Last(self.open_objs)]),
                  !.open_list_maps = Front(@),
                  !.open_objs = Front(@),
                  !.doing_lists = ~@]
    ELSE [self EXCEPT !.doing_lists = ~@]

\* on_event for Event::MappingEnd
OnMappingEnd(self) ==
    IF self.open_params.some
    THEN IF self.open_keys = <<>> \/ self.open_objs = <<>> THEN SetError(self, "InvalidPio")
         ELSE [self EXCEPT
                  !.open_params = None,
                  !.open_keys = Front(@),
                  !.open_objs = Append(Front(@), IMInsert(Last(@), hashit(Last(self.open_keys)),
                                                          self.open_params.v)),
                  !.doing_param_key = FALSE]
    ELSE IF self.doing_objects
    THEN [self EXCEPT !.doing_objects = FALSE, !.doing_lists = TRUE]
    ELSE IF self.last_event = Some("MappingStart") THEN [self EXCEPT !.doing_lists = TRUE]
    ELSE IF self.last_event = Some("MappingEnd") THEN CloseList(self)
    ELSE self

\* on_event for Event::SequenceEnd
StoreSequence(self, p) ==
    IF p.st # "ok" THEN SetError(self, p.st)
    ELSE IF self.open_keys = <<>> \/ ~self.open_params.some
    THEN SetError(self, "InvalidPio")
    ELSE [self EXCEPT !.open_seq = None, !.open_tag = None,
                      !.open_keys = Front(@),
                      !.open_params = Some(IMInsert(@.v, hashit(Last(self.open_keys)), p.v)),
                      !.doing_param_key = TRUE]

OnSequenceEnd(self) ==
    IF ~self.open_seq.some \/ ~self.open_tag.some THEN SetError(self, "InvalidPio")
    ELSE StoreSequence(self, SequenceParam(self.open_tag.v, self.open_seq.v))

\* the event is recorded as the last one when its handler did not fail
Recorded(after, ev) ==
    IF after.error.some \/ after.panicked THEN after
    ELSE [after EXCEPT !.last_event = Some(ev.ev)]

\* mutant: a recorded error does not stop the handler
on_event_unguarded(self, ev) ==
    IF self.panicked THEN self
    ELSE CASE ev.ev = "MappingStart" -> OnMappingStart(self, ev.tag)
           [] ev.ev = "MappingEnd" -> Recorded(OnMappingEnd(self), ev)
           [] ev.ev = "SequenceStart" ->
                 IF ev.tag.some
                 THEN [self EXCEPT !.open_seq = Some(<<>>), !.open_tag = ev.tag,
                                   !.last_event = Some("SequenceStart")]
                 ELSE SetError(self, "InvalidPio")
           [] ev.ev = "SequenceEnd" -> OnSequenceEnd(self)
           [] ev.ev = "Scalar" ->
                 Recorded(read_scalar(self, ev.value, ev.style, ev.tag), ev)
           [] OTHER -> [self EXCEPT !.last_event = Some(ev.ev)]

on_event(self, ev) ==
    IF self.error.some \/ self.panicked THEN self
    ELSE CASE ev.ev = "MappingStart" -> OnMappingStart(self, ev.tag)
           [] ev.ev = "MappingEnd" -> Recorded(OnMappingEnd(self), ev)
           [] ev.ev = "SequenceStart" ->
                 IF ev.tag.some
                 THEN [self EXCEPT !.open_seq = Some(<<>>), !.open_tag = ev.tag,
                                   !.last_event = Some("SequenceStart")]
                 ELSE SetError(self, "InvalidPio")
           [] ev.ev = "SequenceEnd" -> OnSequenceEnd(self)
           [] ev.ev = "Scalar" ->
                 Recorded(read_scalar(self, ev.value, ev.style, ev.tag), ev)
           [] OTHER -> [self EXCEPT !.last_event = Some(ev.ev)]

\* the receiver after the events[lo..hi]
RECURSIVE OnEvents(_, _, _, _)
OnEvents(self, events, lo, hi) ==
    IF lo > hi THEN self
    ELSE IF lo = hi THEN on_event(self, events[lo])
    ELSE Let(OnEvents(self, events, lo, (lo + hi) \div 2), LAMBDA half :
             IF half.error.some \/ half.panicked THEN half
             ELSE OnEvents(half, events, ((lo + hi) \div 2) + 1, hi))

\* parser.next() for the i-th time
NextEvent(events, i) == IF i <= Len(events) THEN events[i] ELSE StreamEnd

\* Ok((pio_type, version)), an error, or the panic of an assert_eq!
parse_header(events) ==
    IF NextEvent(events, 1).ev # "StreamStart" THEN [st |-> "InvalidPio"]
    ELSE IF NextEvent(events, 2).ev # "DocumentStart" THEN [st |-> "InvalidPio"]
    ELSE IF NextEvent(events, 3).ev # "MappingStart" \/ ~NextEvent(events, 3).tag.some
    THEN [st |-> "InvalidPio"]
    ELSE IF NextEvent(events, 3).tag.v # <<105, 111>> (* "io" *) THEN [st |-> "panic"]
    ELSE IF NextEvent(events, 4).ev # "Scalar" THEN [st |-> "InvalidPio"]
    ELSE IF NextEvent(events, 4).value # <<118, 101, 114, 115, 105, 111, 110>> (* "version" *) THEN [st |-> "panic"]
    ELSE IF NextEvent(events, 5).ev # "Scalar" THEN [st |-> "InvalidPio"]
    ELSE IF ~parse_u32(NextEvent(events, 5).value).some THEN [st |-> "InvalidInt"]
    ELSE IF NextEvent(events, 6).ev # "Scalar" THEN [st |-> "InvalidPio"]
    ELSE IF NextEvent(events, 6).value # <<116, 121, 112, 101>> (* "type" *) THEN [st |-> "panic"]
    ELSE IF NextEvent(events, 7).ev # "Scalar" THEN [st |-> "InvalidPio"]
    ELSE IF NextEvent(events, 8).ev # "Scalar" THEN [st |-> "InvalidPio"]
    ELSE IF NextEvent(events, 8).value # <<112, 97, 114, 97, 109, 95, 114, 111, 111, 116>> (* "param_root" *) THEN [st |-> "panic"]
    ELSE [st |-> "ok", pio_type |-> NextEvent(events, 7).value,
          version |-> parse_u32(NextEvent(events, 5).value).v]

\* the outcome of from_text and the name table it leaves
TextResult(pio_parser) ==
    IF pio_parser.panicked THEN [st |-> "panic", TABLE |-> pio_parser.TABLE]
    ELSE IF pio_parser.error.some
    THEN [st |-> pio_parser.error.v, TABLE |-> pio_parser.TABLE]
    ELSE IF pio_parser.pio.some
    THEN [st |-> "ok", v |-> pio_parser.pio.v, TABLE |-> pio_parser.TABLE]
    ELSE [st |-> "InvalidPio", TABLE |-> pio_parser.TABLE]

LoadDocument(events, header, t) ==
    IF header.st # "ok" THEN [st |-> header.st, TABLE |-> t]
    ELSE Let(load_node(events, 9), LAMBDA node :
             TextResult(OnEvents(PioYamlParser_new(header.version, header.pio_type, t),
                                 node, 1, Len(node))))

ParseEvents(events, t) ==
    IF ~events.some THEN [st |-> "InvalidYaml", TABLE |-> t]
    ELSE LoadDocument(events.v, parse_header(events.v), t)

from_text(source, t) == ParseEvents(Parser_events(source), t)

(***************************************************************************)
(* yaml.rs: the text encoder that hands events to a libyaml emitter        *)
(***************************************************************************)
yaml_try_get_name(crc, parent, idx) ==
    IF get_name(get_default_name_table, crc).some
    THEN get_name(get_default_name_table, crc).v
    ELSE Let(guess_name(crc, parent, idx), LAMBDA g : IF g.some THEN g.v ELSE FmtU32(crc))

\* format!("{:?}", s) for a String
FmtDebugStr(s) == <<34>> (* "\"" *) \o Replace(Replace(s, <<92>> (* "\\" *), <<92, 92>> (* "\\\\" *)), <<34>> (* "\"" *), <<92, 34>> (* "\\\"" *)) \o <<34>> (* "\"" *)

\* seq holds the elements as format!("{:?}", i) writes them
yaml_write_seq(seq, tag) ==
    <<SequenceStart(Some(tag))>> \o [i \in 1..Len(seq) |-> Scalar(seq[i], "Any", None)]
        \o <<SequenceEnd>>

yaml_curve_to_vec(curve) ==
    <<FmtU32(curve.a), FmtU32(curve.b)>>
        \o [i \in 1..Len(curve.floats) |-> FmtDebugF32(curve.floats[i])]

is_seq(param) ==
    param.t \notin {"Bool", "F32", "Int", "U32", "String32", "String64", "String256",
                    "StringRef"}

\* the tag and the value of the scalar of a parameter that is no sequence
ScalarOf(tag, value) ==
    <<Scalar(value, IF Len(value) = 0 THEN "DoubleQuoted" ELSE "Any", tag)>>

yaml_write_param(param) ==
    CASE param.t = "Bool" -> ScalarOf(None, IF param.v THEN <<116, 114, 117, 101>> (* "true" *) ELSE <<102, 97, 108, 115, 101>> (* "false" *))
      [] param.t = "BufferBinary" ->
            yaml_write_seq([i \in 1..Len(param.v) |-> FmtDec(param.v[i])], <<33, 98, 117, 102, 102, 101, 114, 95, 98, 105, 110, 97, 114, 121>> (* "!buffer_binary" *))
      [] param.t = "BufferF32" ->
            yaml_write_seq([i \in 1..Len(param.v) |-> FmtDebugF32(param.v[i])], <<33, 98, 117, 102, 102, 101, 114, 95, 102, 51, 50>> (* "!buffer_f32" *))
      [] param.t = "BufferInt" ->
            yaml_write_seq([i \in 1..Len(param.v) |-> FmtI32(param.v[i])], <<33, 98, 117, 102, 102, 101, 114, 95, 105, 110, 116>> (* "!buffer_int" *))
      [] param.t = "BufferU32" ->
            yaml_write_seq([i \in 1..Len(param.v) |-> FmtU32(param.v[i])], <<33, 98, 117, 102, 102, 101, 114, 95, 117, 51, 50>> (* "!buffer_u32" *))
      [] param.t = "Color" ->
            yaml_write_seq([i \in 1..Len(param.v) |-> FmtDebugF32(param.v[i])], <<33, 99, 111, 108, 111, 114>> (* "!color" *))
      [] param.t \in {"Curve1", "Curve2", "Curve3", "Curve4"} ->
            Let(Concat([k \in 1..Len(param.v) |-> yaml_curve_to_vec(param.v[k])]),
                LAMBDA curves :
                    yaml_write_seq([i \in 1..Len(curves) |-> FmtDebugStr(curves[i])],
                                   <<33, 99, 117, 114, 118, 101>> (* "!curve" *)))
      [] param.t = "F32" -> ScalarOf(None, FmtDebugF32(param.v))
      [] param.t = "Int" -> ScalarOf(None, FmtI32(param.v))
      [] param.t = "Quat" ->
            yaml_write_seq([i \in 1..Len(param.v) |-> FmtDebugF32(param.v[i])], <<33, 113, 117, 97, 116>> (* "!quat" *))
      [] param.t = "String32" -> ScalarOf(Some(<<33, 115, 116, 114, 51, 50>> (* "!str32" *)), param.v)
      [] param.t = "String64" -> ScalarOf(Some(<<33, 115, 116, 114, 54, 52>> (* "!str64" *)), param.v)
      [] param.t = "String256" -> ScalarOf(Some(<<33, 115, 116, 114, 50, 53, 54>> (* "!str256" *)), param.v)
      [] param.t = "StringRef" -> ScalarOf(None, param.v)
      [] param.t = "U32" -> ScalarOf(Some(<<33, 117>> (* "!u" *)), FmtU32(param.v))
      [] param.t = "Vec2" ->
            yaml_write_seq([i \in 1..Len(param.v) |-> FmtDebugF32(param.v[i])], <<33, 118, 101, 99, 50>> (* "!vec2" *))
      [] param.t = "Vec3" ->
            yaml_write_seq([i \in 1..Len(param.v) |-> FmtDebugF32(param.v[i])], <<33, 118, 101, 99, 51>> (* "!vec3" *))
      [] param.t = "Vec4" ->
            yaml_write_seq([i \in 1..Len(param.v) |-> FmtDebugF32(param.v[i])], <<33, 118, 101, 99, 52>> (* "!vec4" *))

yaml_write_object(crc, obj) ==
    <<MappingStart(Some(<<33, 111, 98, 106>> (* "!obj" *)))>>
        \o Concat([i \in 1..Len(obj) |->
                      <<Scalar(yaml_try_get_name(obj[i][1], crc, i - 1), "Plain", None)>>
                          \o yaml_write_param(obj[i][2])])
        \o <<MappingEnd>>

\* a child list is written with the crc this list was given
RECURSIVE yaml_write_list(_, _)
yaml_write_list(crc, list) ==
    <<MappingStart(Some(<<33, 108, 105, 115, 116>> (* "!list" *))), Scalar(<<111, 98, 106, 101, 99, 116, 115>> (* "objects" *), "Any", None), MappingStart(None)>>
        \o Concat([i \in 1..Len(list.objects) |->
                      <<Scalar(yaml_try_get_name(list.objects[i][1], crc, i - 1), "Any", None)>>
                          \o yaml_write_object(list.objects[i][1], list.objects[i][2])])
        \o <<MappingEnd, Scalar(<<108, 105, 115, 116, 115>> (* "lists" *), "Any", None), MappingStart(None)>>
        \o Concat([i \in 1..Len(list.lists) |->
                      <<Scalar(yaml_try_get_name(list.lists[i][1], crc, i - 1), "Any", None)>>
                          \o yaml_write_list(crc, list.lists[i][2])])
        \o <<MappingEnd, MappingEnd>>

\* the events to_text gives the emitter
yaml_events(self) ==
    <<StreamStart, DocumentStart, MappingStart(Some(<<33, 105, 111>> (* "!io" *))),
      Scalar(<<118, 101, 114, 115, 105, 111, 110>> (* "version" *), "Any", None), Scalar(FmtU32(self.version), "Any", None),
      Scalar(<<116, 121, 112, 101>> (* "type" *), "Any", None), Scalar(self.pio_type, "Any", None),
      Scalar(<<112, 97, 114, 97, 109, 95, 114, 111, 111, 116>> (* "param_root" *), "Any", None)>>
        \o yaml_write_list(ROOT_CRC, [lists |-> self.lists, objects |-> self.objects])
        \o <<MappingEnd, DocumentEnd>>

\* libyaml writes a scalar plain when it can, and quoted otherwise
EmitScalar(ev) ==
    (IF ev.tag.some THEN ev.tag.v \o <<32>> (* " " *) ELSE <<>>)
        \o (IF ev.style = "DoubleQuoted" \/ ev.value = <<>> \/ Contains(ev.value, <<58, 32>> (* ": " *))
            THEN <<34>> (* "\"" *) \o ev.value \o <<34>> (* "\"" *)
            ELSE IF Contains(ev.value, <<34>> (* "\"" *)) THEN <<39>> (* "'" *) \o ev.value \o <<39>> (* "'" *)
            ELSE ev.value)

\* what the emitter writes for events[i]: block mappings indented by two
\* spaces, an empty mapping as {}, sequences in flow style
EmitEvent(e, events, i) ==
    CASE events[i].ev = "MappingStart" ->
             [e EXCEPT !.depth = @ + 1, !.key = TRUE,
                       !.out = @ \o (IF events[i].tag.some
                                     THEN (IF e.depth = 0 THEN <<>> ELSE <<32>> (* " " *)) \o events[i].tag.v
                                     ELSE <<>>)
                                 \o (IF i < Len(events) /\ events[i + 1].ev = "MappingEnd"
                                     THEN <<32, 123, 125>> (* " {}" *) ELSE <<>>)]
      [] events[i].ev = "MappingEnd" -> [e EXCEPT !.depth = @ - 1, !.key = TRUE]
      [] events[i].ev = "SequenceStart" ->
             [e EXCEPT !.in_seq = TRUE, !.first = TRUE,
                       !.out = @ \o <<32>> (* " " *) \o events[i].tag.v \o <<32, 91>> (* " [" *)]
      [] events[i].ev = "SequenceEnd" ->
             [e EXCEPT !.in_seq = FALSE, !.key = TRUE, !.out = @ \o <<93>> (* "]" *)]
      [] events[i].ev = "Scalar" ->
             IF e.in_seq
             THEN [e EXCEPT !.first = FALSE,
                            !.out = @ \o (IF e.first THEN <<>> ELSE <<44, 32>> (* ", " *))
                                      \o EmitScalar(events[i])]
             ELSE IF e.key
             THEN [e EXCEPT !.key = FALSE,
                            !.out = @ \o <<10>> (* "\n" *) \o [k \in 1..(2 * (e.depth - 1)) |-> 32]
                                      \o EmitScalar(events[i]) \o <<58>> (* ":" *)]
             ELSE [e EXCEPT !.key = TRUE, !.out = @ \o <<32>> (* " " *) \o EmitScalar(events[i])]
      [] OTHER -> e

RECURSIVE EmitEvents(_, _, _, _)
EmitEvents(e, events, lo, hi) ==
    IF lo > hi THEN e
    ELSE IF lo = hi THEN EmitEvent(e, events, lo)
    ELSE Let(EmitEvents(e, events, lo, (lo + hi) \div 2), LAMBDA half :
             IF half.depth < 0 THEN half
             ELSE EmitEvents(half, events, ((lo + hi) \div 2) + 1, hi))

Emitter_emit(events) ==
    EmitEvents([out |-> <<>>, depth |-> 0, key |-> FALSE, in_seq |-> FALSE, first |-> FALSE],
               events, 1, Len(events)).out

\* unescape::unescape: None for an escape it does not know
Unescaped(c) ==
    CASE c = 110 -> 10 [] c = 116 -> 9 [] c = 114 -> 13 [] c = 34 -> 34
      [] c = 39 -> 39 [] c = 92 -> 92 [] OTHER -> 0
unescape(s) ==
    Let(SplitOn(s, 92), LAMBDA ps :
        IF \E k \in 2..Len(ps) : ps[k] = <<>> \/ Unescaped(ps[k][1]) = 0 THEN None
        ELSE Some(ps[1] \o Concat([k \in 1..(Len(ps) - 1) |->
                                      <<Unescaped(ps[k + 1][1])>> \o Tail(ps[k + 1])])))

\* Ok(String) or Err
yaml_to_text(self) == unescape(Emitter_emit(yaml_events(self)))

(***************************************************************************)
(* The text codec as a state machine: a caller may teach the registry a    *)
(* name, encodes its document with either encoder, decodes the text and    *)
(* may carry on with the decoded tree.                                     *)
(***************************************************************************)
MaxTextNodes == 3

\* strings that read as numbers, floats or booleans
TextStrings == <<<<45, 53>> (* "-5" *), <<49, 46, 53>> (* "1.5" *), <<116, 114, 117, 101>> (* "true" *), <<105, 110, 102>> (* "inf" *), <<49, 50>> (* "12" *)>>

TextValueDocs ==
    SelectSeq(ValueDocs, LAMBDA d : Len(d.objects[1][2]) = 1 /\ d.pio_type # <<>>)
    \o [i \in 1..Len(TextStrings) |->
           ParameterIO(LE32(0), XML, OneObject(<<Param("StringRef", TextStrings[i])>>))]
    \o [i \in 1..Len(TextStrings) |->
           ParameterIO(LE32(0), XML, OneObject(<<Param("String64", TextStrings[i])>>))]

TextShapeDocs ==
    UNION {{ParameterIO(LE32(0), XML, root) : root \in ListContents(PARAM_ROOT, n)} :
              n \in 0..MaxTextNodes}

\* names made of decimal digits only: "12", "007", "0"
DigitNames == <<<<49, 50>>, <<48, 48, 55>>, <<48>>>>

\* a tree with the object hash(n), its parameter hash(n) and the list hash(n)
DigitDoc(n) ==
    ParameterIO(LE32(0), XML,
        [objects |-> << <<hash_name(n), << <<hash_name(n), Param("Int", <<7, 0, 0, 0>>)>> >> >> >>,
         lists |-> << <<hash_name(n), [objects |-> <<>>, lists |-> <<>>]>> >>])

DigitDocs == [i \in 1..Len(DigitNames) |-> DigitDoc(DigitNames[i])]

\* a list that holds an object with one parameter, above a chain of d more
\* such lists, each the only child of the one before
MaxChain == 10
RECURSIVE ChainList(_)
ChainList(d) ==
    [objects |-> << <<hash_name(ObjName(PARAM_ROOT, 0)), ObjectOf(PARAM_ROOT, 1)>> >>,
     lists |-> IF d = 0 THEN <<>>
               ELSE << <<hash_name(ListName(PARAM_ROOT, 0)), ChainList(d - 1)>> >>]

\* the trees with a chain of 1 .. MaxChain lists below the root
ChainDocs ==
    [d \in 1..MaxChain |->
        ParameterIO(LE32(0), XML,
            [objects |-> <<>>,
             lists |-> << <<hash_name(ListName(PARAM_ROOT, 0)), ChainList(d - 1)>> >>])]

\* the names of the two sections of a list, as names of keys
SectionNames == <<<<111, 98, 106, 101, 99, 116, 115>> (* "objects" *), <<108, 105, 115, 116, 115>> (* "lists" *)>>

\* the trees with one key hash(n): a parameter, an object or a child list
SectionDocs(n) ==
    << ParameterIO(LE32(0), XML,
           [objects |-> << <<hash_name(ObjName(PARAM_ROOT, 0)),
                             << <<hash_name(n), Param("Int", <<7, 0, 0, 0>>)>> >> >> >>,
            lists |-> <<>>]),
       ParameterIO(LE32(0), XML,
           [objects |-> << <<hash_name(n), ObjectOf(PARAM_ROOT, 1)>> >>, lists |-> <<>>]),
       ParameterIO(LE32(0), XML,
           [objects |-> <<>>,
            lists |-> << <<hash_name(n),
                           [objects |-> << <<hash_name(ObjName(PARAM_ROOT, 0)),
                                             ObjectOf(PARAM_ROOT, 1)>> >>,
                            lists |-> <<>>]>> >>]) >>

\* names of keys of the documents
KeyNames == <<ParamName(PARAM_ROOT, 0), ObjName(PARAM_ROOT, 0)>> \o DigitNames \o SectionNames

InitText ==
    /\ table = TABLE_init
    /\ \/ pio \in TextShapeDocs
       \/ \E i \in 1..Len(TextValueDocs) : pio = TextValueDocs[i]
       \/ \E i \in 1..Len(DigitDocs) : pio = DigitDocs[i]
       \/ \E d \in 1..MaxChain : pio = ChainDocs[d]
       \/ \E i \in 1..Len(SectionNames), k \in 1..3 : pio = SectionDocs(SectionNames[i])[k]
    /\ bytes = <<>>
    /\ text = <<>>
    /\ res = [op |-> "none"]

\* names::TABLE.lock().unwrap().add_name(name)
LearnName ==
    /\ res.op = "none"
    /\ table = TABLE_init
    /\ \E i \in 1..Len(KeyNames) : table' = add_name(table, KeyNames[i])
    /\ UNCHANGED <<pio, bytes, text, res>>

\* pio.to_text() of yaml/emit.rs
ToText ==
    /\ res.op = "none"
    /\ \E w \in {to_text(pio, table)} :
          /\ text' = (IF w.panicked THEN <<>> ELSE w.out)
          /\ res' = [op |-> "to_text", encoder |-> "emit",
                     st |-> IF w.panicked THEN "panic" ELSE "ok", damaged |-> {}]
    /\ UNCHANGED <<table, pio, bytes>>

\* pio.to_text() of yaml.rs
YamlToText ==
    /\ res.op = "none"
    /\ \E r \in {yaml_to_text(pio)} :
          /\ text' = (IF r.some THEN r.v ELSE <<>>)
          /\ res' = [op |-> "to_text", encoder |-> "yaml",
                     st |-> IF r.some THEN "ok" ELSE "err", damaged |-> {}]
    /\ UNCHANGED <<table, pio, bytes>>

\* what a hand may change in the text below the line of param_root: the
\* tag of a scalar, of an object, of a list, of a sequence (none, or one
\* that asks for more elements than the sequence has), or a number
TextEdits ==
    << [kind |-> "scalar_tag", pat |-> <<33, 115, 116, 114, 54, 52, 32>> (* "!str64 " *), to |-> <<33, 115, 116, 114, 57, 57, 32>> (* "!str99 " *)],
       [kind |-> "scalar_tag", pat |-> <<33, 117, 32>> (* "!u " *), to |-> <<33, 120, 32>> (* "!x " *)],
       [kind |-> "no_obj_tag", pat |-> <<58, 32, 33, 111, 98, 106>> (* ": !obj" *), to |-> <<58>> (* ":" *)],
       [kind |-> "no_list_tag", pat |-> <<58, 32, 33, 108, 105, 115, 116>> (* ": !list" *), to |-> <<58>> (* ":" *)],
       [kind |-> "mapping_tag", pat |-> <<58, 32, 33, 111, 98, 106>> (* ": !obj" *), to |-> <<58, 32, 33, 111, 98, 106, 101, 99, 116>> (* ": !object" *)],
       [kind |-> "no_seq_tag", pat |-> <<58, 32, 33, 118, 101, 99, 50, 32, 91>> (* ": !vec2 [" *), to |-> <<58, 32, 91>> (* ": [" *)],
       [kind |-> "number", pat |-> <<33, 117, 32, 48, 120>> (* "!u 0x" *), to |-> <<33, 117, 32, 48, 121>> (* "!u 0y" *)],
       [kind |-> "short_seq", pat |-> <<33, 118, 101, 99, 50, 32, 91>> (* "!vec2 [" *), to |-> <<33, 118, 101, 99, 51, 32, 91>> (* "!vec3 [" *)],
       [kind |-> "short_seq", pat |-> <<33, 118, 101, 99, 51, 32, 91>> (* "!vec3 [" *), to |-> <<33, 118, 101, 99, 52, 32, 91>> (* "!vec4 [" *)],
       [kind |-> "short_seq", pat |-> <<33, 118, 101, 99, 51, 32, 91>> (* "!vec3 [" *), to |-> <<33, 113, 117, 97, 116, 32, 91>> (* "!quat [" *)],
       [kind |-> "short_seq", pat |-> <<33, 118, 101, 99, 51, 32, 91>> (* "!vec3 [" *), to |-> <<33, 99, 111, 108, 111, 114, 32, 91>> (* "!color [" *)],
       [kind |-> "short_seq", pat |-> <<33, 118, 101, 99, 52, 32, 91>> (* "!vec4 [" *), to |-> <<33, 99, 117, 114, 118, 101, 32, 91>> (* "!curve [" *)] >>

\* the line with its first pat, if it has one, replaced
EditLine(line, pat, to) ==
    Let(SelectSeq([i \in 1..Len(line) |-> i], LAMBDA i : StartsAt(line, pat, i)), LAMBDA at :
        IF at = <<>> THEN line
        ELSE SubSeq(line, 1, at[1] - 1) \o to \o SubSeq(line, at[1] + Len(pat), Len(line)))

EditLines(source, pat, to) ==
    Let(SplitOn(source, 10), LAMBDA lines :
        Join([i \in 1..Len(lines) |-> IF i <= 4 THEN lines[i] ELSE EditLine(lines[i], pat, to)],
             <<10>>))

\* the text the decoder is given differs from the one written
EditText(e) ==
    /\ res.op = "to_text"
    /\ res.encoder = "emit"
    /\ res.st = "ok"
    /\ res.damaged = {}
    /\ text' = EditLines(text, e.pat, e.to)
    /\ text' # text
    /\ res' = [res EXCEPT !.damaged = {e.kind}]
    /\ UNCHANGED <<table, pio, bytes>>

\* ParameterIO::from_text(&text), on the text yaml/emit.rs wrote
FromText ==
    /\ res.op = "to_text"
    /\ res.encoder = "emit"
    /\ res.st = "ok"
    /\ \E r \in {from_text(text, table)} :
          /\ table' = r.TABLE
          /\ res' = [op |-> "from_text", st |-> r.st,
                     pio |-> IF r.st = "ok" THEN Some(r.v) ELSE None,
                     damaged |-> res.damaged]
    /\ UNCHANGED <<pio, bytes, text>>

\* the caller goes on with the tree it decoded
KeepDecodedText ==
    /\ res.op = "from_text"
    /\ res.st = "ok"
    /\ pio' = res.pio.v
    /\ text' = <<>>
    /\ res' = [op |-> "none"]
    /\ UNCHANGED <<table, bytes>>

NextText ==
    \/ LearnName
    \/ ToText
    \/ YamlToText
    \/ \E i \in 1..Len(TextEdits) : EditText(TextEdits[i])
    \/ FromText
    \/ KeepDecodedText

SpecText == InitText /\ [][NextText]_vars

(***************************************************************************)
(* Claims about the text codec                                             *)
(***************************************************************************)
\* #[derive(PartialEq)] of the tree: the same keys with equal values, the
\* variant of a parameter compared before its value
ParamEqual(p, q) == p.t = q.t /\ p.v = q.v

ObjectEqual(a, b) ==
    /\ Len(a) = Len(b)
    /\ \A i \in 1..Len(a) : IMHas(b, a[i][1]) /\ ParamEqual(a[i][2], IMGet(b, a[i][1]).v)

RECURSIVE ListEqual(_, _)
ListEqual(a, b) ==
    /\ Len(a.objects) = Len(b.objects)
    /\ \A i \in 1..Len(a.objects) :
          /\ IMHas(b.objects, a.objects[i][1])
          /\ ObjectEqual(a.objects[i][2], IMGet(b.objects, a.objects[i][1]).v)
    /\ Len(a.lists) = Len(b.lists)
    /\ \A i \in 1..Len(a.lists) :
          /\ IMHas(b.lists, a.lists[i][1])
          /\ ListEqual(a.lists[i][2], IMGet(b.lists, a.lists[i][1]).v)

ContentEqual(a, b) ==
    /\ a.version = b.version
    /\ a.pio_type = b.pio_type
    /\ ListEqual(a, b)

\* C2: for every valid tree D, from_text applied to the text of
\* D.to_text() succeeds and returns a tree content-equal to D: the same
\* version, type, keys, parameter variants and values at every depth.
C2_TextRoundTrip ==
    (res.op = "from_text" /\ res.damaged = {}) => (res.st = "ok" /\ ContentEqual(res.pio.v, pio))

\* the key the claim asks for: the registry's name of the hash, else the
\* guess from the enclosing container and the position, else the decimal hash
ExpectedKey(t, crc, parent, idx) ==
    IF get_name(t, crc).some THEN get_name(t, crc).v
    ELSE Let(guess_name(crc, parent, idx), LAMBDA g : IF g.some THEN g.v ELSE FmtU32(crc))

ExpectedObjectKeys(t, obj, crc) ==
    [j \in 1..Len(obj) |-> ExpectedKey(t, obj[j][1], crc, j - 1)]

\* the keys of the text of a list, in the order of the lines
RECURSIVE ExpectedKeys(_, _, _)
ExpectedKeys(t, list, crc) ==
    <<<<111, 98, 106, 101, 99, 116, 115>> (* "objects" *)>>
        \o Concat([i \in 1..Len(list.objects) |->
                      <<ExpectedKey(t, list.objects[i][1], crc, i - 1)>>
                          \o ExpectedObjectKeys(t, list.objects[i][2], list.objects[i][1])])
        \o <<<<108, 105, 115, 116, 115>> (* "lists" *)>>
        \o Concat([i \in 1..Len(list.lists) |->
                      <<ExpectedKey(t, list.lists[i][1], crc, i - 1)>>
                          \o ExpectedKeys(t, list.lists[i][2], list.lists[i][1])])

\* the key of a line: what stands before its first colon that a space or
\* the end of the line follows
KeyEnd(c) ==
    CHOOSE i \in 1..Len(c) :
        /\ c[i] = 58 /\ (i = Len(c) \/ c[i + 1] = 32)
        /\ \A j \in 1..(i - 1) : ~(c[j] = 58 /\ c[j + 1] = 32)
KeyOfLine(line) == SubSeq(TrimLeft(line), 1, KeyEnd(TrimLeft(line)) - 1)

\* the keys of the lines below "param_root:"
RenderedKeys(lines) == [i \in 1..(Len(lines) - 4) |-> KeyOfLine(lines[i + 4])]

\* C10: the text encoder renders every key as the registry's lookup of its
\* hash when present, else as the guess made with the hash of the container
\* that directly encloses the key (at every depth) and the key's position
\* among its siblings, else as the decimal hash.
C10_KeyRendering ==
    (res.op = "to_text" /\ res.st = "ok" /\ res.damaged = {})
        => RenderedKeys(SplitOn(text, 10)) = ExpectedKeys(table, pio, ROOT_CRC)

\* the keys of a tree in the order of the text: of each object and its
\* parameters, then of each list and what it holds
RECURSIVE KeysOf(_)
KeysOf(list) ==
    Concat([i \in 1..Len(list.objects) |->
               <<list.objects[i][1]>>
                   \o [j \in 1..Len(list.objects[i][2]) |-> list.objects[i][2][j][1]]])
    \o Concat([i \in 1..Len(list.lists) |->
                  <<list.lists[i][1]>> \o KeysOf(list.lists[i][2])])

AllDigits(s) == s # <<>> /\ \A i \in 1..Len(s) : IsDigit(s[i])

\* the registry names the hash k as a string of decimal digits
DigitNamed(t, k) == get_name(t, k).some /\ AllDigits(get_name(t, k).v)

Quoted(s) == <<34>> \o s \o <<34>>

\* C11: for every registry name made of decimal digits only, leading zeros
\* included, the text encoder writes the key in double quotes and the text
\* decoder maps the quoted key back to the hash of the name, not to the
\* number the digits spell.
C11_DigitKeys ==
    (res.op = "from_text" /\ res.damaged = {}) =>
        LET keys == KeysOf(pio)
            lines == RenderedKeys(SplitOn(text, 10))
            shown == SelectSeq(lines, LAMBDA l : l \notin {<<111, 98, 106, 101, 99, 116, 115>> (* "objects" *), <<108, 105, 115, 116, 115>> (* "lists" *)})
        IN  \A i \in 1..Len(keys) :
                DigitNamed(table, keys[i]) =>
                    /\ shown[i] = Quoted(get_name(table, keys[i]).v)
                    /\ res.st = "ok"
                    /\ KeysOf(res.pio.v)[i] = keys[i]

\* the keys of a list in the order of iteration: of its objects, of the
\* parameters of each object, of its child lists, and the same below them
RECURSIVE OrderOf(_)
OrderOf(list) ==
    [objects |-> [i \in 1..Len(list.objects) |-> list.objects[i][1]],
     params |-> [i \in 1..Len(list.objects) |->
                    [j \in 1..Len(list.objects[i][2]) |-> list.objects[i][2][j][1]]],
     lists |-> [i \in 1..Len(list.lists) |-> list.lists[i][1]],
     below |-> [i \in 1..Len(list.lists) |-> OrderOf(list.lists[i][2])]]

\* C12: binary encode followed by binary decode preserves order: the
\* parameters of every object and the objects and child lists of every list
\* of the decoded tree stand in the insertion order of the encoded tree.
C12_OrderKept ==
    (res.op = "from_binary" /\ res.damaged = {}) =>
        (res.st = "ok" /\ OrderOf(res.pio.v) = OrderOf(pio))

C12_Witness ==
    /\ res.op = "from_binary"
    /\ res.damaged = {}
    /\ res.st = "ok"
    /\ Len(pio.objects) >= 2
    /\ Len(pio.lists) >= 2
    /\ OrderOf(res.pio.v).lists = <<pio.lists[1][1], pio.lists[2][1]>>

\* C13: from_text fails with an error when a scalar parameter value carries
\* a tag that is none of str32, str64, str256 and u; the value is not
\* accepted under some other variant.
C13_UnknownScalarTag ==
    (res.op = "from_text" /\ res.damaged = {"scalar_tag"}) =>
        (res.st \notin {"ok", "panic"} /\ res.pio = None)

\* the values of the string parameters of a tree
RECURSIVE StringsOf(_)
StringsOf(list) ==
    Concat([i \in 1..Len(list.objects) |->
               Let(SelectSeq(list.objects[i][2], LAMBDA e : is_string(e[2])), LAMBDA ps :
                   [j \in 1..Len(ps) |-> ps[j][2].v])])
    \o Concat([i \in 1..Len(list.lists) |-> StringsOf(list.lists[i][2])])

\* the key names of a text: its keys other than "objects", "lists" and the
\* plain decimal hashes, without their quotes
KeyNamesOf(source) ==
    Let(SelectSeq(RenderedKeys(SplitOn(source, 10)),
                  LAMBDA k : k \notin {<<111, 98, 106, 101, 99, 116, 115>> (* "objects" *), <<108, 105, 115, 116, 115>> (* "lists" *)} /\ ~parse_u32(k).some),
        LAMBDA ks : [i \in 1..Len(ks) |-> Replace(ks[i], <<34>>, <<>>)])

Registered(t, s) == get_name(t, Crc32(s)) = Some(s)

\* C14: during from_text every literal string scalar value (tagged str32,
\* str64 or str256, untagged plain, or quoted) and every key name met is
\* added to the registry: after a successful from_text the lookup of the
\* hash of any such string returns the string.
C14_StringsRegistered ==
    (res.op = "from_text" /\ res.st = "ok" /\ res.damaged = {}) =>
        /\ \A i \in 1..Len(StringsOf(res.pio.v)) : Registered(table, StringsOf(res.pio.v)[i])
        /\ \A i \in 1..Len(KeyNamesOf(text)) : Registered(table, KeyNamesOf(text)[i])

\* the fields of the list, object and parameter record at position p of an archive
ListRecord(buf, p) ==
    [crc |-> SubSeq(buf, p + 1, p + 4), lists_rel_offset |-> U16(SubSeq(buf, p + 5, p + 6)),
     num_lists |-> U16(SubSeq(buf, p + 7, p + 8)),
     objs_rel_offset |-> U16(SubSeq(buf, p + 9, p + 10)),
     num_objs |-> U16(SubSeq(buf, p + 11, p + 12))]
ObjectRecord(buf, p) ==
    [crc |-> SubSeq(buf, p + 1, p + 4), params_rel_offset |-> U16(SubSeq(buf, p + 5, p + 6)),
     num_params |-> U16(SubSeq(buf, p + 7, p + 8))]
ParameterRecord(buf, p) ==
    [crc |-> SubSeq(buf, p + 1, p + 4), data_offset |-> U24(SubSeq(buf, p + 5, p + 7)),
     param_type |-> buf[p + 8]]

\* where the sections of an archive start, from its header
ListSection(buf) == 48 + U32(SubSeq(buf, 21, 24))
ObjectSection(buf) == ListSection(buf) + 12 * U32(SubSeq(buf, 25, 28))
ValueArea(buf) == ParamSection(buf) + 8 * NumParams(buf)

\* the bytes a record's offset points at: the elements of a buffer, else the value
ValueBytes(param) ==
    IF is_buffer(param) THEN ElementBytes(param) ELSE write_param_value(param, Cursor_new).buf

\* the record at p is that of the parameter e and its offset leads to e's value
ParamRecordOk(buf, p, e) ==
    /\ p >= ParamSection(buf) /\ p + 8 <= ValueArea(buf)
    /\ ParameterRecord(buf, p).crc = e[1]
    /\ ParameterRecord(buf, p).param_type = get_param_type(e[2])
    /\ p + 4 * ParameterRecord(buf, p).data_offset >= ValueArea(buf)
    /\ Read(buf, p + 4 * ParameterRecord(buf, p).data_offset, Len(ValueBytes(e[2])))
           = Some(ValueBytes(e[2]))

\* the record at p is that of the object e and its offset leads to the
\* records of e's parameters, one after the other
ObjectRecordOk(buf, p, e) ==
    /\ p >= ObjectSection(buf) /\ p + 8 <= ParamSection(buf)
    /\ ObjectRecord(buf, p).crc = e[1]
    /\ ObjectRecord(buf, p).num_params = Len(e[2])
    /\ \A j \in 1..Len(e[2]) :
          ParamRecordOk(buf, p + 4 * ObjectRecord(buf, p).params_rel_offset + 8 * (j - 1),
                        e[2][j])

\* the offsets of the list record at p lead to the records of the child
\* lists and of the objects of list, and so on below
RECURSIVE ListOffsetsOk(_, _, _)
ListOffsetsOk(buf, p, list) ==
    /\ \A k \in 1..Len(list.lists) :
          LET q == p + 4 * ListRecord(buf, p).lists_rel_offset + 12 * (k - 1)
          IN  /\ q >= ListSection(buf) /\ q + 12 <= ObjectSection(buf)
              /\ ListRecord(buf, q).crc = list.lists[k][1]
              /\ ListRecord(buf, q).num_lists = Len(list.lists[k][2].lists)
              /\ ListRecord(buf, q).num_objs = Len(list.lists[k][2].objects)
              /\ ListOffsetsOk(buf, q, list.lists[k][2])
    /\ \A k \in 1..Len(list.objects) :
          ObjectRecordOk(buf, p + 4 * ListRecord(buf, p).objs_rel_offset + 8 * (k - 1),
                         list.objects[k])

\* C15: in the encoder's output every offset field is a displacement in
\* words from its own record: a list record's to the first of its child-list
\* records and to the first of its object records, an object record's to
\* the first of its parameter records, each group contiguous, and a
\* parameter record's 3-byte field to the start of its value.
C15_RelativeOffsets ==
    (res.op = "to_binary" /\ res.damaged = {}) =>
        /\ ListRecord(bytes, ListSection(bytes)).crc = ROOT_CRC
        /\ ListOffsetsOk(bytes, ListSection(bytes), pio)

C15_Witness ==
    /\ res.op = "to_binary"
    /\ res.damaged = {}
    /\ Len(pio.lists) = 2
    /\ pio.lists[2][2].objects # <<>>
    /\ pio.lists[2][2].objects[1][2] # <<>>
    /\ ListRecord(bytes, ListSection(bytes) + 24).objs_rel_offset > 0

\* the shape of a tree: the keys of the objects of each list and, under
\* its key, the shape of each child list
RECURSIVE ShapeOf(_)
ShapeOf(list) ==
    [objects |-> {list.objects[i][1] : i \in 1..Len(list.objects)},
     lists |-> {<<list.lists[i][1], ShapeOf(list.lists[i][2])>> : i \in 1..Len(list.lists)}]

\* C16: for every tree of lists and objects, at any depth and with any
\* number of siblings, lists with both mappings empty included, the text
\* decoder fed the events of the text the encoder wrote returns a tree of
\* the same shape: every object and every child list under the same parent
\* and the same key, the contents of the root at the top of the document.
C16_ShapeKept ==
    (res.op = "from_text" /\ res.damaged = {}) =>
        (res.st = "ok" /\ ShapeOf(res.pio.v) = ShapeOf(pio))

\* where the value of the parameter of record i (from 0) starts and ends:
\* the count word of a buffer belongs to its value
ValueStart(buf, i, param) ==
    ParamRecord(buf, i) + 4 * ParameterRecord(buf, ParamRecord(buf, i)).data_offset
        - (IF is_buffer(param) THEN 4 ELSE 0)
ValueEnd(buf, i, param) ==
    ParamRecord(buf, i) + 4 * ParameterRecord(buf, ParamRecord(buf, i)).data_offset
        + Len(ValueBytes(param))

\* the end of the last value that is no string, or the start of the value area
DataEnd(buf, ps) ==
    Let({ValueEnd(buf, i - 1, ps[i]) : i \in {k \in 1..Len(ps) : ~is_string(ps[k])}},
        LAMBDA ends : IF ends = {} THEN ValueArea(buf)
                      ELSE CHOOSE e \in ends : \A f \in ends : f <= e)

data_section_size(buf) == U32(SubSeq(buf, 37, 40))
string_section_size(buf) == U32(SubSeq(buf, 41, 44))

\* C17: in the encoder's output the value of every string parameter lies
\* after the values of all parameters that are no strings, whatever the
\* order of the parameters in the tree; the header's data-section size is
\* the number of bytes the values that are no strings occupy and its
\* string-section size the number of bytes of the rest of the value area.
C17_StringsLast ==
    (res.op = "to_binary" /\ res.damaged = {}) =>
        LET ps == ParamsInOrder(pio.lists, pio.objects)
        IN  /\ \A i, k \in 1..Len(ps) :
                  (is_string(ps[i]) /\ ~is_string(ps[k])) =>
                      ValueStart(bytes, i - 1, ps[i]) >= ValueEnd(bytes, k - 1, ps[k])
            /\ data_section_size(bytes) = DataEnd(bytes, ps) - ValueArea(bytes)
            /\ string_section_size(bytes) = (Len(bytes) - 1) - DataEnd(bytes, ps)

C17_Witness ==
    /\ res.op = "to_binary"
    /\ res.damaged = {}
    /\ Len(pio.objects) = 1
    /\ Len(pio.objects[1][2]) = 2
    /\ is_string(pio.objects[1][2][1][2])
    /\ pio.objects[1][2][2][2].t = "BufferBinary"
    /\ string_section_size(bytes) > 0
    /\ data_section_size(bytes) > 0

file_size(buf) == U32(SubSeq(buf, 13, 16))

\* C18: the total-file-size field of the header the encoder writes is the
\* number of bytes the encoder emits for the document.
C18_FileSize ==
    (res.op = "to_binary" /\ res.damaged = {}) => file_size(bytes) = Len(bytes)

(***************************************************************************)
(* from_text event by event: the parser hands the events of the node under *)
(* param_root to the receiver one at a time                                *)
(***************************************************************************)
\* from_text up to the first call of on_event: Parser::new, parse_header,
\* PioYamlParser::new and the events load_node will hand over
StartParse ==
    /\ res.op = "to_text"
    /\ res.encoder = "emit"
    /\ res.st = "ok"
    /\ \E events \in {Parser_events(text)} :
          IF ~events.some
          THEN res' = [op |-> "from_text", st |-> "InvalidYaml", pio |-> None,
                       damaged |-> res.damaged, err_at |-> 0, events |-> 0]
          ELSE \E header \in {parse_header(events.v)} :
                  IF header.st # "ok"
                  THEN res' = [op |-> "from_text", st |-> header.st, pio |-> None,
                               damaged |-> res.damaged, err_at |-> 0, events |-> 0]
                  ELSE res' = [op |-> "load_node", node |-> load_node(events.v, 9), i |-> 1,
                               self |-> PioYamlParser_new(header.version, header.pio_type,
                                                          table),
                               damaged |-> res.damaged, err_at |-> 0]
    /\ UNCHANGED <<table, pio, bytes, text>>

\* pio_parser.on_event(ev, mark) for the next event of the node; a panic
\* ends the walk
OnEvent ==
    /\ res.op = "load_node"
    /\ res.i <= Len(res.node)
    /\ ~res.self.panicked
    /\ \E after \in {on_event(res.self, res.node[res.i])} :
          /\ res' = [res EXCEPT !.self = after, !.i = @ + 1,
                                !.err_at = IF ~res.self.error.some /\ after.error.some
                                           THEN res.i ELSE @]
          /\ table' = after.TABLE
    /\ UNCHANGED <<pio, bytes, text>>

\* from_text after load_node: the match on pio_parser.error and pio_parser.pio
Returned ==
    /\ res.op = "load_node"
    /\ res.i > Len(res.node) \/ res.self.panicked
    /\ \E r \in {TextResult(res.self)} :
          res' = [op |-> "from_text", st |-> r.st,
                  pio |-> IF r.st = "ok" THEN Some(r.v) ELSE None,
                  damaged |-> res.damaged, err_at |-> res.err_at, events |-> Len(res.node)]
    /\ UNCHANGED <<table, pio, bytes, text>>

NextParse ==
    \/ ToText
    \/ \E i \in 1..Len(TextEdits) : EditText(TextEdits[i])
    \/ StartParse
    \/ OnEvent
    \/ Returned

SpecParse == InitText /\ [][NextParse]_vars

C20_UntaggedEntry ==
    (res.op = "from_text" /\ res.damaged \in {{"no_obj_tag"}, {"no_list_tag"}}) =>
        (res.st \notin {"ok", "panic"} /\ res.pio = None)

(***************************************************************************)
(* C21: from_text returns an error value, and does not abort the caller,   *)
(* when a tagged sequence has fewer elements than its tag asks for (2, 3,  *)
(* 4 for vec2, vec3, vec4, 4 for quat and color) or when a curve sequence  *)
(* has a length other than 32, 64, 96 or 128.                              *)
(***************************************************************************)
C21_ShortSequence ==
    (res.op = "from_text" /\ res.damaged = {"short_seq"})
        => (res.st \notin {"ok", "panic"} /\ res.pio = None)

(***************************************************************************)
(* C22: from_binary terminates on every finite input, also when the        *)
(* child-list offset of a list record points back at the record itself or  *)
(* at one of its ancestors: such an input ends in an error value, the      *)
(* recursion does not go on without bound.                                 *)
(***************************************************************************)
C22_CycleIsError ==
    (res.op = "from_binary" /\ res.damaged = {"self_list"})
        => (res.st = "err" /\ res.pio = None)

(***************************************************************************)
(* C23: from_binary never silently discards a record: when it succeeds,    *)
(* the decoded tree has one list, object or parameter for every record it  *)
(* read (the root's included); two sibling records with the same hash do   *)
(* not collapse into one entry of a returned tree.                         *)
(***************************************************************************)
C23_NoRecordDropped ==
    (res.op = "from_binary" /\ res.st = "ok") =>
        res.reads = 1 + count_lists(res.pio.v.lists)
                      + count_objs(res.pio.v.lists, Len(res.pio.v.objects))
                      + count_params(res.pio.v.lists, res.pio.v.objects)

(***************************************************************************)
(* C24: when the parent hash is unresolved, or no candidate derived from   *)
(* the parent name matches, guess scans the numbered templates in list     *)
(* order, each over the indices 0 .. sibling_index+1, and returns the      *)
(* first substituted name of that scan order whose hash is the target; it  *)
(* returns nothing only when no template and index match.                  *)
(***************************************************************************)
\* every candidate derived from the parent name P
ParentCandidates(P, i) ==
    TwoIndexCandidates(P, i)
        \o (IF P = <<67, 104, 105, 108, 100, 114, 101, 110>> (* "Children" *) THEN TwoIndexCandidates(<<67, 104, 105, 108, 100>> (* "Child" *), i) ELSE <<>>)
        \o AllCandidates(StrippedBases(P, 1), i, 1)

\* the substituted names in scan order: template by template, index 0 first
NumberedCandidates(idx) ==
    Concat([k \in 1..Len(NUMBERED_NAMES) |->
               [j \in 1..(idx + 2) |-> numbered_name(NUMBERED_NAMES[k], j - 1)]])

Substituted(name, i) ==
    Replace(Replace(Replace(Replace(name, <<123, 125>> (* "{}" *), FmtDec(i)), <<123, 58, 48, 50, 125>> (* "{:02}" *), FmtPad(i, 2)),
                    <<123, 58, 48, 51, 125>> (* "{:03}" *), FmtPad(i, 3)), <<123, 58, 48, 52, 125>> (* "{:04}" *), FmtPad(i, 4))

SubstitutedNames(idx) ==
    Concat([k \in 1..Len(NUMBERED_NAMES) |->
               [j \in 1..(idx + 2) |-> Substituted(NUMBERED_NAMES[k], j - 1)]])

C25_PlaceholderWidths ==
    res.op = "guess" =>
        LET parent == get_name(table, res.parent)
            names == SubstitutedNames(res.idx)
        IN  (~parent.some \/ Hits(ParentCandidates(parent.v, res.idx), res.crc) = {}) =>
                /\ Hits(names, res.crc) # {} => res.result.some
                /\ res.result.some => \E n \in 1..Len(names) : names[n] = res.result.v

(***************************************************************************)
(* C26: the text encoder succeeds for lists nested to any depth: for a     *)
(* chain of lists nested d levels below the root, each holding an object   *)
(* with one parameter, to_text returns text and does not abort, also when  *)
(* the indentation level exceeds the number of prepared indentations.      *)
(***************************************************************************)
C26_AnyDepth ==
    (res.op = "to_text" /\ res.encoder = "emit") => (res.st = "ok" /\ text # <<>>)

(***************************************************************************)
(* Two threads and the registry                                            *)
(*                                                                         *)
(* names::TABLE is one table behind a lock.  Each of two threads processes *)
(* a document: it decodes an archive or a text, which adds the strings it  *)
(* meets, or it encodes a tree as text, which looks every key up and       *)
(* guesses at the keys the table does not hold.  A thread's job is the     *)
(* sequence of its requests to the registry; res holds the lock's owner (0 *)
(* when it is free) and, for each thread, the request it is at and where   *)
(* in try_get_name or add_parsed_string_to_table it stands: "next" before  *)
(* TABLE.lock(), "locked" with the guard in hand, "guess" inside           *)
(* names::guess_name.                                                      *)
(***************************************************************************)
Threads == {1, 2}

AddRequest(name) == [kind |-> "add", name |-> name, crc |-> <<>>, parent |-> <<>>, idx |-> 0]
NameRequest(crc, parent, idx) ==
    [kind |-> "lookup", name |-> <<>>, crc |-> crc, parent |-> parent, idx |-> idx]

\* the calls of try_get_name that write_list makes, in order
RECURSIVE NameRequests(_, _)
NameRequests(list, crc) ==
    Concat([i \in 1..Len(list.objects) |->
               <<NameRequest(list.objects[i][1], crc, i - 1)>>
                   \o [j \in 1..Len(list.objects[i][2]) |->
                          NameRequest(list.objects[i][2][j][1], list.objects[i][1], j - 1)]])
    \o Concat([i \in 1..Len(list.lists) |->
                  <<NameRequest(list.lists[i][1], crc, i - 1)>>
                      \o NameRequests(list.lists[i][2], list.lists[i][1])])

\* the names a decoder of the text adds: the entries the table gains
AddedNames(before, after) ==
    [i \in 1..(Len(after) - Len(before)) |-> after[Len(before) + i][2]]

\* the requests of pio.to_text(), from_binary(bytes) and from_text(text)
Requests(job) ==
    CASE job.op = "to_text" -> NameRequests(job.pio, ROOT_CRC)
      [] job.op = "from_binary" ->
            Let(from_binary(to_binary(job.pio)).names, LAMBDA names :
                [i \in 1..Len(names) |-> AddRequest(names[i])])
      [] job.op = "from_text" ->
            Let(AddedNames(TABLE_init, from_text(to_text(job.pio, TABLE_init).out, TABLE_init).TABLE),
                LAMBDA names : [i \in 1..Len(names) |-> AddRequest(names[i])])

\* a tree with two strings, and a tree with a list the stock table names
StringsDoc ==
    ParameterIO(LE32(0), XML,
                OneObject(<<Param("String64", <<97, 98>> (* "ab" *)), Param("String32", <<71, 97, 116, 101, 115>> (* "Gates" *))>>))

ThreadJobs ==
    << [op |-> "from_binary", pio |-> StringsDoc],
       [op |-> "from_text", pio |-> StringsDoc],
       [op |-> "to_text", pio |-> StringsDoc],
       [op |-> "to_text", pio |-> ChainDocs[1]] >>

InitThreads ==
    /\ table = TABLE_init
    /\ \E a \in 1..Len(ThreadJobs), b \in 1..Len(ThreadJobs) :
          /\ pio = <<ThreadJobs[a], ThreadJobs[b]>>
          /\ res = [op |-> "threads", lock |-> 0,
                    work |-> <<Requests(ThreadJobs[a]), Requests(ThreadJobs[b])>>,
                    i |-> <<1, 1>>, pc |-> <<"next", "next">>, out |-> <<<<>>, <<>>>>]
    /\ bytes = <<>>
    /\ text = <<>>

\* names::TABLE.lock().unwrap(): the thread waits until the lock is free
TableLock(t) ==
    /\ res.op = "threads"
    /\ res.pc[t] = "next"
    /\ res.i[t] <= Len(res.work[t])
    /\ res.lock = 0
    /\ res' = [res EXCEPT !.lock = t, !.pc[t] = "locked"]
    /\ UNCHANGED <<table, pio, bytes, text>>

\* table.add_name(string); the guard is dropped at the end of the scope
TableAdd(t) ==
    /\ res.op = "threads"
    /\ res.pc[t] = "locked"
    /\ res.work[t][res.i[t]].kind = "add"
    /\ table' = add_name(table, res.work[t][res.i[t]].name)
    /\ res' = [res EXCEPT !.lock = 0, !.pc[t] = "next", !.i[t] = @ + 1]
    /\ UNCHANGED <<pio, bytes, text>>

\* try_get_name: table.get_name(*crc); on a hit the name is returned and
\* the guard dropped with it, on a miss drop(table) comes before the guess
TableLookup(t) ==
    /\ res.op = "threads"
    /\ res.pc[t] = "locked"
    /\ res.work[t][res.i[t]].kind = "lookup"
    /\ \E r \in {get_name(table, res.work[t][res.i[t]].crc)} :
          res' = IF r.some
                 THEN [res EXCEPT !.lock = 0, !.pc[t] = "next", !.i[t] = @ + 1,
                                  !.out[t] = Append(@, Requote(r.v))]
                 ELSE [res EXCEPT !.lock = 0, !.pc[t] = "guess"]
    /\ UNCHANGED <<table, pio, bytes, text>>

\* names::guess_name(*crc, *parent, idx), which looks the parent up
Guess(t) ==
    /\ res.op = "threads"
    /\ res.pc[t] = "guess"
    /\ \E q \in {res.work[t][res.i[t]]} :
          res' = [res EXCEPT !.pc[t] = "next", !.i[t] = @ + 1,
                             !.out[t] = Append(@,
                                 Let(guess_name(q.crc, q.parent, q.idx), LAMBDA g :
                                     IF g.some THEN Requote(g.v) ELSE FmtU32(q.crc)))]
    /\ UNCHANGED <<table, pio, bytes, text>>

NextThreads ==
    \E t \in Threads : TableLock(t) \/ TableAdd(t) \/ TableLookup(t) \/ Guess(t)

SpecThreads == InitThreads /\ [][NextThreads]_vars

(***************************************************************************)
(* C27: every access to the shared registry made by binary decode, text    *)
(* decode and text encode (each add, each lookup, and the parent lookup    *)
(* made inside guess) is performed while holding the registry's lock, so   *)
(* no two accesses of two threads overlap.                                 *)
(***************************************************************************)
\* thread t is at an access: an add or a lookup, or the lookup of the guess
Accessing(t) == res.pc[t] \in {"locked", "guess"}

C27_AccessesLocked ==
    res.op = "threads" =>
        /\ \A t \in Threads : Accessing(t) => res.lock = t
        /\ ~(Accessing(1) /\ Accessing(2))

(***************************************************************************)
(* The fields of the records, for trees of any size                        *)
(*                                                                         *)
(* What the encoder stores in an offset or a count depends on the number   *)
(* of children, on the sizes of the sections and on the positions of its   *)
(* buffers, not on the contents of the tree.  The steps below apply the    *)
(* encoder's own writes to these numbers as a large tree produces them.    *)
(* res holds, for every field written, its name, the value the encoder     *)
(* computed, the number its bytes read back as and the largest number the  *)
(* field can hold; st is "ok" because the writes on a Cursor<Vec<u8>>      *)
(* return no error and the casts none either.                              *)
(***************************************************************************)
Field(name, value, stored, limit) ==
    [name |-> name, value |-> value, stored |-> stored, limit |-> limit]

\* numbers of children, and of lists in a tree, on both sides of 65535 and
\* of 65535 words of list records
ChildCounts == {0, 1, 2, 65534, 65535, 65536, 65537}
ListCounts == {1, 2, 3, 21844, 21845, 21846, 21847, 43691}
\* positions in the data buffer on both sides of 2^24 - 1 words
DataPositions == {0, 4, 8, 67108836, 67108840, 67108844, 67108848, 67108852, 67108856, 67108860, 67108864}

\* the record of the root as write_binary writes it
RootRecord(sz, num_lists, num_objs) ==
    WriteParameterList(ROOT_CRC, 3, num_lists, sz.lists_size \div 4, num_objs)

InitFields ==
    /\ table = TABLE_init
    /\ pio = None
    /\ bytes = <<>>
    /\ text = <<>>
    /\ res = [op |-> "none"]

\* write_binary on a tree of n lists whose root has num_lists child lists
\* and num_objs objects: the root's record
WriteRoot(n, num_lists, num_objs) ==
    /\ num_lists < n
    /\ bytes' = RootRecord([lists_size |-> n * 12], num_lists, num_objs)
    /\ res' = [op |-> "field", st |-> "ok",
               fields |-> << Field("num_lists", num_lists, U16(SubSeq(bytes', 7, 8)), 65535),
                             Field("objs_rel_offset", (n * 12) \div 4,
                                   U16(SubSeq(bytes', 9, 10)), 65535),
                             Field("num_objs", num_objs, U16(SubSeq(bytes', 11, 12)), 65535) >>]
    /\ UNCHANGED <<table, pio, text>>

\* write_list_contents on the first child list (its record is at 12) of a
\* tree of n lists, after k objects of the root: the offset of its objects
PatchObjects(n, k) ==
    /\ \E s \in {WriteListObjects(12, << <<ROOT_CRC, <<>>>> >>,
                     [list_buffer |-> write_all(Cursor_new, Zeros(24)),
                      obj_buffer |-> write_all(Cursor_new, Zeros(8 * k)),
                      param_buffer |-> Cursor_new, all_params |-> <<>>],
                     [lists_size |-> n * 12, objs_size |-> 8 * (k + 1), params_size |-> 0])} :
          /\ bytes' = s.list_buffer.buf
          /\ res' = [op |-> "field", st |-> "ok",
                     fields |-> << Field("objs_rel_offset", (8 * k + n * 12 - 12) \div 4,
                                         U16(SubSeq(bytes', 21, 22)), 65535) >>]
    /\ UNCHANGED <<table, pio, text>>

\* write_param_data / write_param_string for the first parameter record
\* when the data buffer stands at position p: the offset of the value
PatchValue(p, pad) ==
    /\ bytes' = write_param_offset(0, p, write_all(Cursor_new, Zeros(8)), pad).buf
    /\ res' = [op |-> "field", st |-> "ok",
               fields |-> << Field("data_offset", (p + pad + 8) \div 4,
                                   U24(SubSeq(bytes', 5, 7)), 16777215) >>]
    /\ UNCHANGED <<table, pio, text>>

NextFields ==
    \/ \E n \in ListCounts, num_lists \in ChildCounts, num_objs \in ChildCounts :
          WriteRoot(n, num_lists, num_objs)
    \/ \E n \in ListCounts, k \in 0..2 : n >= 2 /\ PatchObjects(n, k)
    \/ \E p \in DataPositions, pad \in {0, 4} : PatchValue(p, pad)

SpecFields == InitFields /\ [][NextFields]_vars

(***************************************************************************)
(* C28: the binary encoder never stores a silently truncated offset or     *)
(* count: when a child displacement exceeds 65535 words, a value           *)
(* displacement 2^24 - 1 words or a child count 65535, to_binary fails     *)
(* with an error and does not write the value reduced modulo the width of  *)
(* the field.                                                              *)
(***************************************************************************)
C28_NoTruncation ==
    res.op = "field" =>
        \A i \in 1..Len(res.fields) :
            /\ res.fields[i].value > res.fields[i].limit => res.st = "err"
            /\ res.st = "ok" => res.fields[i].stored = res.fields[i].value


(***************************************************************************)
(* The variants of the parameters after a text round trip                  *)
(***************************************************************************)
\* the parameter a text gives back for p: the same variant, and for a free
\* string reference the same text
VariantKept(p, q) == q.t = p.t /\ (p.t = "StringRef" => q.v = p.v)

\* the parameters of b, taken in the order of the text, keep those of a
ObjectVariantsKept(a, b) ==
    /\ Len(a) = Len(b)
    /\ \A j \in 1..Len(a) : VariantKept(a[j][2], b[j][2])

RECURSIVE ListVariantsKept(_, _)
ListVariantsKept(a, b) ==
    /\ Len(a.objects) = Len(b.objects)
    /\ \A i \in 1..Len(a.objects) : ObjectVariantsKept(a.objects[i][2], b.objects[i][2])
    /\ Len(a.lists) = Len(b.lists)
    /\ \A i \in 1..Len(a.lists) : ListVariantsKept(a.lists[i][2], b.lists[i][2])

\* C29: text encode followed by text decode preserves the variant of every
\* parameter: a StringRef comes back as a StringRef with the same text,
\* also when its text reads as an integer, a float or a boolean ("-5",
\* "1.5", "inf", "true").
C29_VariantsKept ==
    (res.op = "from_text" /\ res.damaged = {}) =>
        (res.st = "ok" /\ ListVariantsKept(pio, res.pio.v))


(***************************************************************************)
(* Keys that read as the name of a section                                 *)
(***************************************************************************)
\* the tree has the key crc: a parameter, an object or a child list
RECURSIVE HasKey(_, _)
HasKey(list, crc) ==
    \/ \E i \in 1..Len(list.objects) :
          \/ list.objects[i][1] = crc
          \/ \E j \in 1..Len(list.objects[i][2]) : list.objects[i][2][j][1] = crc
    \/ \E i \in 1..Len(list.lists) :
          list.lists[i][1] = crc \/ HasKey(list.lists[i][2], crc)

\* to_text wrote a key of the tree as "objects" or as "lists"
SectionKeyRendered ==
    \E i \in 1..Len(SectionNames) :
        /\ Registered(table, SectionNames[i])
        /\ HasKey(pio, hash_name(SectionNames[i]))

\* C30: the text decoder treats a scalar in key position inside an objects
\* mapping, a lists mapping or an object body as an ordinary key even when
\* its text is "objects" or "lists": a tree with a parameter, object or
\* child list whose rendered name is "objects" or "lists" decodes from its
\* own text to an equal tree.
C30_SectionNamesAsKeys ==
    (res.op = "from_text" /\ res.damaged = {} /\ SectionKeyRendered) =>
        (res.st = "ok" /\ ContentEqual(res.pio.v, pio))

====
